---- MODULE Spec2Model ----
(***************************************************************************)
(* Verified-placement pipeline (src/src/pipeline/verified_placement.py):   *)
(* the generate -> review -> examine retry loop of                         *)
(* generate_with_verification and generate_removal_with_verification,      *)
(* with the compositors of tempImpl/insertItem.py and                      *)
(* tempImpl/removeItem.py.  Text is modelled as sequences of one-character *)
(* strings so that prompt assembly, verdict parsing and path formatting    *)
(* are computed as the code computes them.                                 *)
(***************************************************************************)
EXTENDS Integers, Sequences, FiniteSets, TLC

(***************************************************************************)
(* Bounds of the model                                                     *)
(***************************************************************************)
\* largest max_attempts argument explored
MaxAttemptsBound == 3

\* largest max_attempts argument explored when two runs are interleaved
MaxConcAttempts == 2

\* the loop invocations; run 2 is never invoked (idle) under Spec
Runs == {1, 2}

(***************************************************************************)
(* Text helpers (Python str methods used by the pipeline)                  *)
(***************************************************************************)
MinOf(S) == CHOOSE x \in S : \A y \in S : x <= y

MaxOf(S) == CHOOSE x \in S : \A y \in S : x >= y

LowerLetters ==
    <<"a","b","c","d","e","f","g","h","i","j","k","l","m",
      "n","o","p","q","r","s","t","u","v","w","x","y","z">>

UpperLetters ==
    <<"A","B","C","D","E","F","G","H","I","J","K","L","M",
      "N","O","P","Q","R","S","T","U","V","W","X","Y","Z">>

\* one character of str.upper()
UpperChar(c) ==
    IF \E k \in 1..26 : LowerLetters[k] = c
    THEN UpperLetters[CHOOSE k \in 1..26 : LowerLetters[k] = c]
    ELSE c

\* str.upper()
UpperStr(s) == [k \in 1..Len(s) |-> UpperChar(s[k])]

\* the characters str.strip() removes
IsSpace(c) == c \in {" ", "\n", "\t", "\r"}

\* str.strip()
Strip(s) ==
    LET keep == {k \in 1..Len(s) : ~IsSpace(s[k])}
    IN  IF keep = {} THEN <<>> ELSE SubSeq(s, MinOf(keep), MaxOf(keep))

\* sub in s
Contains(s, sub) ==
    \E k \in 0..(Len(s) - Len(sub)) : SubSeq(s, k + 1, k + Len(sub)) = sub

\* str.startswith()
StartsWith(s, p) == Len(s) >= Len(p) /\ SubSeq(s, 1, Len(p)) = p

\* str.splitlines(): no empty last line after a trailing line break
RECURSIVE SplitLines(_)
SplitLines(s) ==
    IF s = <<>> THEN <<>>
    ELSE LET brk == {k \in 1..Len(s) : s[k] = "\n"}
         IN  IF brk = {} THEN <<s>>
             ELSE <<SubSeq(s, 1, MinOf(brk) - 1)>>
                  \o SplitLines(SubSeq(s, MinOf(brk) + 1, Len(s)))

\* line.split(":", 1)[1], for a line that has a colon
AfterFirstColon(line) ==
    LET colons == {k \in 1..Len(line) : line[k] = ":"}
    IN  SubSeq(line, MinOf(colons) + 1, Len(line))

\* sep.join(parts)
RECURSIVE Join(_, _)
Join(parts, sep) ==
    IF parts = <<>> THEN <<>>
    ELSE IF Len(parts) = 1 THEN parts[1]
    ELSE parts[1] \o sep \o Join(Tail(parts), sep)

\* str(i) for a non-negative integer
RECURSIVE Decimal(_)
Decimal(n) ==
    LET digit == <<"0","1","2","3","4","5","6","7","8","9">>
    IN  IF n < 10 THEN <<digit[n + 1]>>
        ELSE Decimal(n \div 10) \o <<digit[(n % 10) + 1]>>

\* Path(p).stem: the last path component without its last suffix
Stem(p) ==
    LET slashes == {k \in 1..Len(p) : p[k] = "/"}
        name == IF slashes = {} THEN p
                ELSE SubSeq(p, MaxOf(slashes) + 1, Len(p))
        dots == {k \in 2..Len(name) : name[k] = "."}
    IN  IF dots = {} \/ MaxOf(dots) = Len(name) THEN name
        ELSE SubSeq(name, 1, MaxOf(dots) - 1)

\* Path(p).suffix: the last suffix of the last path component, with its dot
Suffix(p) ==
    LET slashes == {k \in 1..Len(p) : p[k] = "/"}
        name == IF slashes = {} THEN p
                ELSE SubSeq(p, MaxOf(slashes) + 1, Len(p))
        dots == {k \in 2..Len(name) : name[k] = "."}
    IN  IF dots = {} \/ MaxOf(dots) = Len(name) THEN <<>>
        ELSE SubSeq(name, MaxOf(dots), Len(name))

(***************************************************************************)
(* Literals of the source                                                  *)
(***************************************************************************)
\* Config.INPUT_DIR, "in/"
InputDir ==
    <<"i","n","/">>

\* "_edited"
EditedTag ==
    <<"_","e","d","i","t","e","d">>

\* "_WithRedDot.png"
RedDotTag ==
    <<"_","W","i","t","h","R","e","d","D","o","t",".","p","n","g">>

\* "IMPORTANT corrections from previous attempts: "
CorrectionsPreamble ==
    <<"I","M","P","O","R","T","A","N","T"," ","c","o","r","r","e","c","t",
      "i","o","n","s"," ","f","r","o","m"," ","p","r","e","v","i","o","u",
      "s"," ","a","t","t","e","m","p","t","s",":"," ">>

\* the separator of ". ".join(prompt_parts)
PartSeparator == <<".", " ">>

\* the separator of " ".join(accumulated_feedback)
FeedbackSeparator == <<" ">>

VerdictPassToken ==
    <<"V","E","R","D","I","C","T",":"," ","P","A","S","S">>

FeedbackToken ==
    <<"F","E","E","D","B","A","C","K",":">>

\* "ADDITIONAL INSTRUCTIONS: ", the label of the additional-instructions block
InstructionsLabel ==
    <<"A","D","D","I","T","I","O","N","A","L"," ","I","N","S","T","R","U",
      "C","T","I","O","N","S",":"," ">>

\* "INTENDED PLACEMENT: ", the intent line of REVIEWER_PROMPT and EXAMINER_PROMPT
IntentLabel ==
    <<"I","N","T","E","N","D","E","D"," ","P","L","A","C","E","M","E","N",
      "T",":"," ">>

\* "ITEM LOCATION (what should have been removed): ", the intent line of the
\* removal prompts
RemovalIntentLabel ==
    <<"I","T","E","M"," ","L","O","C","A","T","I","O","N"," ","(","w","h",
      "a","t"," ","s","h","o","u","l","d"," ","h","a","v","e"," ","b","e",
      "e","n"," ","r","e","m","o","v","e","d",")",":"," ">>

\* "Your task", the first words of the reviewer templates after the block
ReviewerTask ==
    <<"Y","o","u","r"," ","t","a","s","k">>

\* "REVIEWER'S OBSERVATIONS (use as a secondary reference, but trust your own
\* eyes first):\n", the examiner templates after the block
ExaminerObservations ==
    <<"R","E","V","I","E","W","E","R","'","S"," ","O","B","S","E","R","V",
      "A","T","I","O","N","S"," ","(","u","s","e"," ","a","s"," ","a"," ",
      "s","e","c","o","n","d","a","r","y"," ","r","e","f","e","r","e","n",
      "c","e",","," ","b","u","t"," ","t","r","u","s","t"," ","y","o","u",
      "r"," ","o","w","n"," ","e","y","e","s"," ","f","i","r","s","t",")",
      ":","\n">>

\* "\n\nYOUR TASK", the first words of the examiner templates after {review}
ExaminerTask ==
    <<"\n","\n","Y","O","U","R"," ","T","A","S","K">>

\* Config.OUTPUT_DIR, as a path prefix
OutputDir == <<"o","u","t","/">>

(***************************************************************************)
(* Inputs and model responses explored                                     *)
(***************************************************************************)
\* "near door"
DescNearDoor ==
    <<"n","e","a","r"," ","d","o","o","r">>

\* " oak " (surrounding blanks are stripped by the prompt assembly)
InstrOak ==
    <<" ","o","a","k"," ">>

\* "in/room.jpg"
RoomPathA ==
    <<"i","n","/","r","o","o","m",".","j","p","g">>

\* "in/den.jpg"
RoomPathB ==
    <<"i","n","/","d","e","n",".","j","p","g">>

\* "up/room.png": another file with the stem of RoomPathA
RoomPathC ==
    <<"u","p","/","r","o","o","m",".","p","n","g">>

\* "room.jpg", the name of an uploaded file
NameRoom ==
    <<"r","o","o","m",".","j","p","g">>

\* "den.jpg"
NameDen ==
    <<"d","e","n",".","j","p","g">>

\* "in/sofa.png"
ItemPathA ==
    <<"i","n","/","s","o","f","a",".","p","n","g">>

\* "item seen"
ReviewSeen ==
    <<"i","t","e","m"," ","s","e","e","n">>

\* "no item"
ReviewAbsent ==
    <<"n","o"," ","i","t","e","m">>

\* "VERDICT: PASS\nFEEDBACK: looks great"
RespPassGreat ==
    <<"V","E","R","D","I","C","T",":"," ","P","A","S","S","\n","F","E","E",
      "D","B","A","C","K",":"," ","l","o","o","k","s"," ","g","r","e","a",
      "t">>

\* "Verdict: fail\nFeedback: shadow missing"
RespFailShadow ==
    <<"V","e","r","d","i","c","t",":"," ","f","a","i","l","\n","F","e","e",
      "d","b","a","c","k",":"," ","s","h","a","d","o","w"," ","m","i","s",
      "s","i","n","g">>

\* "VERDICT: FAIL\nFEEDBACK: wrong angle"
RespFailAngle ==
    <<"V","E","R","D","I","C","T",":"," ","F","A","I","L","\n","F","E","E",
      "D","B","A","C","K",":"," ","w","r","o","n","g"," ","a","n","g","l",
      "e">>

\* "unclear": neither a verdict line nor a feedback line
RespNoVerdict ==
    <<"u","n","c","l","e","a","r">>

\* "verdict: pass"
PieceVerdictLower ==
    <<"v","e","r","d","i","c","t",":"," ","p","a","s","s">>

\* "Verdict: fail"
PieceVerdictFail ==
    <<"V","e","r","d","i","c","t",":"," ","f","a","i","l">>

\* "VERDICT:PASS" (no blank after the colon)
PieceVerdictNoSpace ==
    <<"V","E","R","D","I","C","T",":","P","A","S","S">>

\* "FEEDBACK: looks great"
PieceFeedbackGreat ==
    <<"F","E","E","D","B","A","C","K",":"," ","l","o","o","k","s"," ","g",
      "r","e","a","t">>

\* "Feedback: chair too small, scale up by 20%"
PieceFeedbackChair ==
    <<"F","e","e","d","b","a","c","k",":"," ","c","h","a","i","r"," ","t",
      "o","o"," ","s","m","a","l","l",","," ","s","c","a","l","e"," ","u",
      "p"," ","b","y"," ","2","0","%">>

\* "feedback: a: b " (a second colon and a trailing blank)
PieceFeedbackColon ==
    <<"f","e","e","d","b","a","c","k",":"," ","a",":"," ","b"," ">>

\* "FEEDBACK:"
PieceFeedbackBlank ==
    <<"F","E","E","D","B","A","C","K",":">>

\* " FEEDBACK: x" (a feedback line that starts with a blank)
PieceIndented ==
    <<" ","F","E","E","D","B","A","C","K",":"," ","x">>

\* fragments the wide examiner answers are put together from
Pieces ==
    {VerdictPassToken, PieceVerdictLower, PieceVerdictFail, PieceVerdictNoSpace,
     PieceFeedbackGreat, PieceFeedbackChair, PieceFeedbackColon,
     PieceFeedbackBlank, PieceIndented, RespNoVerdict}

\* what joins two fragments: a line break or a blank
PieceSeparators == {<<"\n">>, <<" ">>}

\* largest number of fragments in one examiner answer
MaxPieces == 2

\* the answers made of at most n fragments
RECURSIVE PieceTexts(_)
PieceTexts(n) ==
    IF n <= 1 THEN Pieces
    ELSE PieceTexts(n - 1)
         \cup {t \o s \o p : t \in PieceTexts(n - 1), s \in PieceSeparators,
                             p \in Pieces}

\* the examiner answers explored by SpecParse
ExaminerTextsWide == PieceTexts(MaxPieces)

Descriptions == {<<>>, DescNearDoor}

Instructions == {<<>>, <<" ">>, InstrOak}

ReviewTexts == {ReviewSeen, ReviewAbsent}

ExaminerTexts == {RespPassGreat, RespFailShadow, RespFailAngle, RespNoVerdict}

(***************************************************************************)
(* State                                                                   *)
(***************************************************************************)
VARIABLES
    google_api_key,        \* Config.GOOGLE_API_KEY is set
    files,                 \* the file system: path -> image content
    args,                  \* per run: the arguments of the loop invocation
    pc,                    \* per run: position in the loop body
    i,                     \* per run: loop variable (0 before the first iteration)
    attempts,              \* per run: list of PlacementAttempt
    accumulated_feedback,  \* per run: list of feedback strings
    full_prompt,           \* per run: prompt of the current attempt
    result_path,           \* per run: path returned by the compositor
    review,                \* per run: text returned by the reviewer
    passed,                \* per run: verdict of the examiner
    feedback,              \* per run: feedback of the examiner
    result,                \* per run: the returned VerifiedPlacementResult
    error,                 \* per run: the exception that left the function
    calls,                 \* per run: external calls made so far, in order
    session_state,         \* app.py: st.session_state of one browser session
    widgets,               \* app.py: the values the widgets hold between script runs
    script,                \* app.py: the script runs (rerun pending, last handler call)
    batch                  \* image_editor.py: one process_batch call

vars == <<google_api_key, files, args, pc, i, attempts, accumulated_feedback,
          full_prompt, result_path, review, passed, feedback, result, error,
          calls, session_state, widgets, script, batch>>

\* the variables of the verification loop other than the file system
loopVars == <<google_api_key, args, pc, i, attempts, accumulated_feedback,
              full_prompt, result_path, review, passed, feedback, result, error,
              calls>>

\* Python's None (and every other value that is false in an `if`)
None == <<>>

\* st.session_state.get("verification_result") before any edit has returned
NoVerification == [attempts |-> 0]

\* _defaults; verification_result is read with .get and is None until set
Defaults ==
    [room_image_path |-> None, layout_image_path |-> None,
     layout_with_dot_path |-> None, click_coords |-> None,
     result_image_path |-> None, verification_result |-> NoVerification]

\* the value of a file_uploader that holds no file
NoFile == [name |-> None, data |-> 0]

\* the widgets before the first interaction
NoWidgets == [room_uploader |-> NoFile, layout_click |-> None]

\* no handler has made a call yet
NoCall == [kind |-> "none", raised |-> FALSE, path |-> None]

\* the script has not run
NoScript == [rerun |-> FALSE, interactions |-> 0, last_call |-> NoCall]

\* process_batch has not been called
NoBatch ==
    [pc |-> "idle", image_paths |-> <<>>, prompts |-> [str |-> TRUE, items |-> <<>>],
     output_names |-> [none |-> TRUE, items |-> <<>>], i |-> 0,
     results |-> <<>>, error |-> "none", processed |-> <<>>]

\* a local name that has not been assigned yet
Unbound == <<"<unbound>">>

\* no VerifiedPlacementResult has been returned
NoResult ==
    [returned |-> FALSE, final_image_path |-> <<>>, passed |-> FALSE,
     attempts |-> <<>>]

\* image content: which run's compositor call wrote it (by = 0: an upload)
Uploaded == [by |-> 0, attempt |-> 0]

\* the content of an uploaded item image (uploads are numbered by attempt)
UploadedItem == [by |-> 0, attempt |-> 1]

\* the content of the other uploaded room photos
UploadedRoomB == [by |-> 0, attempt |-> 2]

UploadedRoomC == [by |-> 0, attempt |-> 3]

\* a PlacementAttempt that does not carry the verdict (passed left False)
PlacementAttempt_VerdictDropped(n, path, rev, ok, fb) ==
    [attempt |-> n, image_path |-> path, review |-> rev, passed |-> FALSE,
     feedback |-> fb]

\* a PlacementAttempt that keeps the feedback of failed attempts only
PlacementAttempt_FeedbackOnlyOnFail(n, path, rev, ok, fb) ==
    [attempt |-> n, image_path |-> path, review |-> rev, passed |-> ok,
     feedback |-> IF ok THEN <<>> ELSE fb]

\* a PlacementAttempt numbered from 0
PlacementAttempt_ZeroBased(n, path, rev, ok, fb) ==
    [attempt |-> n - 1, image_path |-> path, review |-> rev, passed |-> ok,
     feedback |-> fb]

\* @dataclass PlacementAttempt
PlacementAttempt(n, path, rev, ok, fb) ==
    [attempt |-> n, image_path |-> path, review |-> rev, passed |-> ok,
     feedback |-> fb]

\* @dataclass VerifiedPlacementResult
VerifiedPlacementResult(path, ok, hist) ==
    [returned |-> TRUE, final_image_path |-> path, passed |-> ok,
     attempts |-> hist]

\* one entry of the log of external calls; raised: the call ended in an
\* exception; response: the text the call returned
CallEntry(kind, n, text, instr, rev, images, path, raised, response) ==
    [kind |-> kind, attempt |-> n, text |-> text, instructions |-> instr,
     review |-> rev, images |-> images, path |-> path, raised |-> raised,
     response |-> response]

\* files with path p (re)written with content c
WriteFile(fs, p, c) ==
    [q \in (DOMAIN fs) \cup {p} |-> IF q = p THEN c ELSE fs[q]]

(***************************************************************************)
(* Pure parts of the loop body                                             *)
(***************************************************************************)
\* prompt assembly that keeps only the most recent feedback
BuildPrompt_LastFeedbackOnly(description, additional_instructions, acc) ==
    LET p1 == <<description>>
        p2 == IF Strip(additional_instructions) # <<>>
              THEN Append(p1, Strip(additional_instructions)) ELSE p1
        p3 == IF acc # <<>>
              THEN Append(p2, CorrectionsPreamble \o acc[Len(acc)])
              ELSE p2
    IN  Join(p3, PartSeparator)

\* prompt assembly that puts the corrections before the instructions
BuildPrompt_FeedbackBeforeInstructions(description, additional_instructions, acc) ==
    LET p1 == <<description>>
        p2 == IF acc # <<>>
              THEN Append(p1, CorrectionsPreamble \o Join(acc, FeedbackSeparator))
              ELSE p1
        p3 == IF Strip(additional_instructions) # <<>>
              THEN Append(p2, Strip(additional_instructions)) ELSE p2
    IN  Join(p3, PartSeparator)

\* prompt assembly of one attempt
BuildPrompt(description, additional_instructions, acc) ==
    LET p1 == <<description>>
        p2 == IF Strip(additional_instructions) # <<>>
              THEN Append(p1, Strip(additional_instructions)) ELSE p1
        p3 == IF acc # <<>>
              THEN Append(p2, CorrectionsPreamble \o Join(acc, FeedbackSeparator))
              ELSE p2
    IN  Join(p3, PartSeparator)

\* an artifact path that is not keyed by the attempt number
AttemptOutputInsert_NoIndex(room_image_path, item_image_path, n) ==
    OutputDir \o Stem(room_image_path) \o <<"_","w","i","t","h","_">>
    \o Stem(item_image_path) \o <<".","j","p","g">>

\* artifact path of attempt n of an insertion run
AttemptOutputInsert(room_image_path, item_image_path, n) ==
    OutputDir \o Stem(room_image_path) \o <<"_","w","i","t","h","_">>
    \o Stem(item_image_path) \o <<"_","a","t","t","e","m","p","t">>
    \o Decimal(n) \o <<".","j","p","g">>

\* artifact path of attempt n of a removal run
AttemptOutputRemove(room_image_path, n) ==
    OutputDir \o Stem(room_image_path)
    \o <<"_","r","e","m","o","v","e","d","_","a","t","t","e","m","p","t">>
    \o Decimal(n) \o <<".","j","p","g">>

\* verdict parsing that passes whatever is not an explicit FAIL
ParseExamine_PassUnlessFail(raw) ==
    LET lines == SplitLines(raw)
        hits == {k \in 1..Len(lines) : StartsWith(UpperStr(lines[k]), FeedbackToken)}
    IN  [passed |-> ~Contains(UpperStr(raw),
                              <<"V","E","R","D","I","C","T",":"," ","F","A","I","L">>),
         feedback |-> IF hits = {} THEN <<>>
                      ELSE Strip(AfterFirstColon(lines[MinOf(hits)]))]

\* verdict parsing that takes the feedback from a line that merely contains
\* the FEEDBACK: token
ParseExamine_FeedbackAnywhere(raw) ==
    LET lines == SplitLines(raw)
        hits == {k \in 1..Len(lines) : Contains(UpperStr(lines[k]), FeedbackToken)}
    IN  [passed |-> Contains(UpperStr(raw), VerdictPassToken),
         feedback |-> IF hits = {} THEN <<>>
                      ELSE Strip(AfterFirstColon(lines[MinOf(hits)]))]

\* verdict parsing that matches the verdict case-sensitively
ParseExamine_CaseSensitive(raw) ==
    LET lines == SplitLines(raw)
        hits == {k \in 1..Len(lines) : StartsWith(UpperStr(lines[k]), FeedbackToken)}
    IN  [passed |-> Contains(raw, VerdictPassToken),
         feedback |-> IF hits = {} THEN <<>>
                      ELSE Strip(AfterFirstColon(lines[MinOf(hits)]))]

\* verdict parsing of _examine
ParseExamine(raw) ==
    LET lines == SplitLines(raw)
        hits == {k \in 1..Len(lines) : StartsWith(UpperStr(lines[k]), FeedbackToken)}
    IN  [passed |-> Contains(UpperStr(raw), VerdictPassToken),
         feedback |-> IF hits = {} THEN <<>>
                      ELSE Strip(AfterFirstColon(lines[MinOf(hits)]))]

\* verdict parsing of _examine_removal
ParseExamineRemoval(raw) ==
    LET lines == SplitLines(raw)
        hits == {k \in 1..Len(lines) : StartsWith(UpperStr(lines[k]), FeedbackToken)}
    IN  [passed |-> Contains(UpperStr(raw), VerdictPassToken),
         feedback |-> IF hits = {} THEN <<>>
                      ELSE Strip(AfterFirstColon(lines[MinOf(hits)]))]

\* an instructions block that is emitted even when there are no instructions
FormatInstructionsBlock_AlwaysEmits(additional_instructions) ==
    InstructionsLabel \o Strip(additional_instructions) \o <<"\n">>

\* _format_instructions_block
FormatInstructionsBlock(additional_instructions) ==
    IF Strip(additional_instructions) # <<>>
    THEN InstructionsLabel \o Strip(additional_instructions) \o <<"\n">>
    ELSE <<>>

\* The prompt templates from the intent line on; the fixed text in front of
\* the intent line and behind the first words that follow the last
\* placeholder has no placeholder and is left out.
\* REVIEWER_PROMPT.format(...)
ReviewerPrompt(placement_description, additional_instructions) ==
    IntentLabel \o placement_description \o <<"\n">>
    \o FormatInstructionsBlock(additional_instructions) \o ReviewerTask

\* EXAMINER_PROMPT.format(...)
ExaminerPrompt(placement_description, additional_instructions, rev) ==
    IntentLabel \o placement_description \o <<"\n">>
    \o FormatInstructionsBlock(additional_instructions)
    \o ExaminerObservations \o rev \o ExaminerTask

\* REMOVAL_REVIEWER_PROMPT.format(...)
RemovalReviewerPrompt(location_description, additional_instructions) ==
    RemovalIntentLabel \o location_description \o <<"\n">>
    \o FormatInstructionsBlock(additional_instructions) \o ReviewerTask

\* REMOVAL_EXAMINER_PROMPT.format(...)
RemovalExaminerPrompt(location_description, additional_instructions, rev) ==
    RemovalIntentLabel \o location_description \o <<"\n">>
    \o FormatInstructionsBlock(additional_instructions)
    \o ExaminerObservations \o rev \o ExaminerTask

(***************************************************************************)
(* External collaborators: what a call can come back with                  *)
(***************************************************************************)
\* generate_content of the image model
CompositorResponses == {"raises", "no_parts", "no_inline_data", "image"}

\* generate_content of the text model: raises, or returns a (possibly empty) text
TextResponses(texts) ==
    {[raises |-> TRUE, text |-> <<>>]}
    \cup {[raises |-> FALSE, text |-> t] : t \in texts \cup {<<>>}}

\* what the observer callback can do
ObserverOutcomes == {"returns", "raises"}

\* _call_gemini_text: the exception raised ("none": returns text)
CallGeminiText(key, resp) ==
    IF ~key THEN [error |-> "ValueError", text |-> <<>>]
    ELSE IF resp.raises THEN [error |-> "APIError", text |-> <<>>]
    ELSE IF resp.text = <<>> THEN [error |-> "ValueError", text |-> <<>>]
    ELSE [error |-> "none", text |-> Strip(resp.text)]

\* insert_item_into_scene / remove_item_from_scene up to the file write:
\* the exception raised ("none": the image is written to output_path)
Compose(fs, key, inputs, resp) ==
    IF \E p \in inputs : p \notin DOMAIN fs THEN "FileNotFoundError"
    ELSE IF ~key THEN "ValueError"
    ELSE IF resp = "raises" THEN "APIError"
    ELSE IF resp \in {"no_parts", "no_inline_data"} THEN "ValueError"
    ELSE "none"

(***************************************************************************)
(* Initial states                                                          *)
(***************************************************************************)
\* argument tuples of generate_with_verification
InsertArgs ==
    [flavor : {"insert"}, room_image_path : {RoomPathA},
     item_image_path : {ItemPathA}, description : Descriptions,
     additional_instructions : Instructions,
     max_attempts : 0..MaxAttemptsBound, on_attempt : BOOLEAN]

\* argument tuples of generate_removal_with_verification (no item image)
RemoveArgs ==
    [flavor : {"remove"}, room_image_path : {RoomPathA},
     item_image_path : {<<>>}, description : Descriptions,
     additional_instructions : Instructions,
     max_attempts : 0..MaxAttemptsBound, on_attempt : BOOLEAN]

\* the arguments of a run that is never invoked
IdleArgs ==
    [flavor |-> "remove", room_image_path |-> RoomPathA,
     item_image_path |-> <<>>, description |-> <<>>,
     additional_instructions |-> <<>>, max_attempts |-> 0,
     on_attempt |-> FALSE]

\* the locals of every run right after lines 198-199 / 391-392
InitLocals ==
    /\ i = [r \in Runs |-> 0]
    /\ attempts = [r \in Runs |-> <<>>]
    /\ accumulated_feedback = [r \in Runs |-> <<>>]
    /\ full_prompt = [r \in Runs |-> Unbound]
    /\ result_path = [r \in Runs |-> Unbound]
    /\ review = [r \in Runs |-> Unbound]
    /\ passed = [r \in Runs |-> FALSE]
    /\ feedback = [r \in Runs |-> Unbound]
    /\ result = [r \in Runs |-> NoResult]
    /\ error = [r \in Runs |-> "none"]
    /\ calls = [r \in Runs |-> <<>>]

\* the app has not been opened and process_batch has not been called
NoAppNoBatch ==
    /\ session_state = Defaults
    /\ widgets = NoWidgets
    /\ script = NoScript
    /\ batch = NoBatch

\* a step of the loop leaves the app and process_batch alone
LoopOnly == UNCHANGED <<session_state, widgets, script, batch>>

\* one loop invocation (run 1); the uploads are on disk
Init ==
    /\ google_api_key \in BOOLEAN
    /\ files = [p \in {RoomPathA, ItemPathA} |->
                   IF p = RoomPathA THEN Uploaded ELSE UploadedItem]
    /\ \E a \in InsertArgs \cup RemoveArgs :
          args = [r \in Runs |-> IF r = 1 THEN a ELSE IdleArgs]
    /\ pc = [r \in Runs |-> IF r = 1 THEN "loop" ELSE "idle"]
    /\ InitLocals
    /\ NoAppNoBatch

(***************************************************************************)
(* The loop, one action per stretch between external calls                 *)
(***************************************************************************)
\* the image files a call of run r opens, in the order it passes them
ComposeInputs(r) ==
    IF args[r].flavor = "insert"
    THEN <<args[r].room_image_path, args[r].item_image_path>>
    ELSE <<args[r].room_image_path>>

\* the reviewer and the examiner get the two room images only, whatever the flavor
VerifyInputs_NoItem(r) == <<args[r].room_image_path, result_path[r]>>

\* the image files _review / _examine (three) and _review_removal /
\* _examine_removal (two) open, in the order they pass them
VerifyInputs(r) ==
    IF args[r].flavor = "insert"
    THEN <<args[r].room_image_path, result_path[r], args[r].item_image_path>>
    ELSE <<args[r].room_image_path, result_path[r]>>

\* the contents of the files at paths (by = -1: no such file)
ImagesOf(fs, paths) ==
    [k \in 1..Len(paths) |->
        IF paths[k] \in DOMAIN fs THEN fs[paths[k]]
        ELSE [by |-> -1, attempt |-> 0]]

Range(s) == {s[k] : k \in 1..Len(s)}

\* an exception that is swallowed and counted as a failed attempt
Raise_CountedAsFail(r, e) ==
    /\ error' = error
    /\ pc' = [pc EXCEPT ![r] = "loop"]

\* an exception leaves the function: nothing in the loop catches it
Raise(r, e) ==
    /\ error' = [error EXCEPT ![r] = e]
    /\ pc' = [pc EXCEPT ![r] = "raised"]

Log(r, entry) == calls' = [calls EXCEPT ![r] = Append(@, entry)]

\* a loop head that does not advance the attempt index
NextAttempt_IndexStuck(r) ==
    /\ pc[r] = "loop"
    /\ i[r] < args[r].max_attempts
    /\ full_prompt' = [full_prompt EXCEPT ![r] =
          BuildPrompt(args[r].description, args[r].additional_instructions,
                      accumulated_feedback[r])]
    /\ pc' = [pc EXCEPT ![r] = "generate"]
    /\ UNCHANGED <<google_api_key, files, args, i, attempts, accumulated_feedback,
                   result_path, review, passed, feedback, result, error, calls>>

\* loop head: next value of i, prompt assembly
NextAttempt(r) ==
    /\ pc[r] = "loop"
    /\ i[r] < args[r].max_attempts
    /\ i' = [i EXCEPT ![r] = @ + 1]
    /\ full_prompt' = [full_prompt EXCEPT ![r] =
          BuildPrompt(args[r].description, args[r].additional_instructions,
                      accumulated_feedback[r])]
    /\ pc' = [pc EXCEPT ![r] = "generate"]
    /\ UNCHANGED <<google_api_key, files, args, attempts, accumulated_feedback,
                   result_path, review, passed, feedback, result, error, calls>>

\* GENERATE: the compositor call of attempt i;
\* resps: what the image model may come back with
GenerateWith(r, resps) ==
    /\ pc[r] = "generate"
    /\ \E resp \in resps :
         LET out == IF args[r].flavor = "insert"
                    THEN AttemptOutputInsert(args[r].room_image_path,
                                             args[r].item_image_path, i[r])
                    ELSE AttemptOutputRemove(args[r].room_image_path, i[r])
             e == Compose(files, google_api_key, Range(ComposeInputs(r)), resp)
         IN  /\ Log(r, CallEntry("compositor", i[r], full_prompt[r], <<>>, <<>>,
                                 ImagesOf(files, ComposeInputs(r)), out,
                                 e # "none", <<>>))
             /\ IF e = "none"
                THEN /\ files' = WriteFile(files, out, [by |-> r, attempt |-> i[r]])
                     /\ result_path' = [result_path EXCEPT ![r] = out]
                     /\ pc' = [pc EXCEPT ![r] = "review"]
                     /\ UNCHANGED error
                ELSE /\ Raise(r, e)
                     /\ UNCHANGED <<files, result_path>>
    /\ UNCHANGED <<google_api_key, args, i, attempts, accumulated_feedback,
                   full_prompt, review, passed, feedback, result>>

\* GENERATE with every outcome of the image model
Generate(r) == GenerateWith(r, CompositorResponses)

\* REVIEW that hands the assembled Compositor prompt to the reviewer
ReviewWith_SeesFullPrompt(r, texts) ==
    /\ pc[r] = "review"
    /\ \E resp \in TextResponses(texts) :
         LET out == CallGeminiText(google_api_key, resp)
             missing == \E p \in Range(VerifyInputs(r)) : p \notin DOMAIN files
         IN  /\ Log(r, CallEntry("reviewer", i[r], full_prompt[r],
                                 args[r].additional_instructions, <<>>,
                                 ImagesOf(files, VerifyInputs(r)), result_path[r],
                                 missing \/ out.error # "none",
                                 IF missing THEN <<>> ELSE out.text))
             /\ IF missing
                THEN Raise(r, "FileNotFoundError") /\ UNCHANGED review
                ELSE IF out.error # "none"
                THEN Raise(r, out.error) /\ UNCHANGED review
                ELSE /\ review' = [review EXCEPT ![r] = out.text]
                     /\ pc' = [pc EXCEPT ![r] = "examine"]
                     /\ UNCHANGED error
    /\ UNCHANGED <<google_api_key, files, args, i, attempts, accumulated_feedback,
                   full_prompt, result_path, passed, feedback, result>>

\* REVIEW: the reviewer call of attempt i;
\* texts: the texts the reviewer model may answer with
ReviewWith(r, texts) ==
    /\ pc[r] = "review"
    /\ \E resp \in TextResponses(texts) :
         LET out == CallGeminiText(google_api_key, resp)
             missing == \E p \in Range(VerifyInputs(r)) : p \notin DOMAIN files
         IN  /\ Log(r, CallEntry("reviewer", i[r], args[r].description,
                                 args[r].additional_instructions, <<>>,
                                 ImagesOf(files, VerifyInputs(r)), result_path[r],
                                 missing \/ out.error # "none",
                                 IF missing THEN <<>> ELSE out.text))
             /\ IF missing
                THEN Raise(r, "FileNotFoundError") /\ UNCHANGED review
                ELSE IF out.error # "none"
                THEN Raise(r, out.error) /\ UNCHANGED review
                ELSE /\ review' = [review EXCEPT ![r] = out.text]
                     /\ pc' = [pc EXCEPT ![r] = "examine"]
                     /\ UNCHANGED error
    /\ UNCHANGED <<google_api_key, files, args, i, attempts, accumulated_feedback,
                   full_prompt, result_path, passed, feedback, result>>

\* the loop goes from the Compositor straight to the Examiner
Review_Skipped(r) ==
    /\ pc[r] = "review"
    /\ pc' = [pc EXCEPT ![r] = "examine"]
    /\ UNCHANGED <<google_api_key, files, args, i, attempts, accumulated_feedback,
                   full_prompt, result_path, review, passed, feedback, result,
                   error, calls>>

\* REVIEW with the reviewer answers explored by Spec
Review(r) == ReviewWith(r, ReviewTexts)

\* the observer is never called
AfterAppend_NeverNotify(on_attempt) == "decide"

\* if on_attempt: the observer is called only when one was supplied
AfterAppend(on_attempt) == IF on_attempt THEN "notify" ELSE "decide"

\* EXAMINE that appends the attempt before the examiner has answered: a call
\* that raises leaves a partly filled Attempt in the history
ExamineWith_AppendsOnError(r, texts) ==
    /\ pc[r] = "examine"
    /\ \E resp \in TextResponses(texts) :
         LET out == CallGeminiText(google_api_key, resp)
             verdict == IF args[r].flavor = "insert"
                        THEN ParseExamine(out.text)
                        ELSE ParseExamineRemoval(out.text)
             missing == \E p \in Range(VerifyInputs(r)) : p \notin DOMAIN files
         IN  /\ Log(r, CallEntry("examiner", i[r], args[r].description,
                                 args[r].additional_instructions, review[r],
                                 ImagesOf(files, VerifyInputs(r)), result_path[r],
                                 missing \/ out.error # "none",
                                 IF missing THEN <<>> ELSE out.text))
             /\ IF missing
                THEN Raise(r, "FileNotFoundError")
                     /\ UNCHANGED <<passed, feedback, attempts>>
                ELSE IF out.error # "none"
                THEN /\ Raise(r, out.error)
                     /\ attempts' = [attempts EXCEPT ![r] =
                           Append(@, PlacementAttempt(i[r], result_path[r],
                                     review[r], FALSE, Unbound))]
                     /\ UNCHANGED <<passed, feedback>>
                ELSE /\ passed' = [passed EXCEPT ![r] = verdict.passed]
                     /\ feedback' = [feedback EXCEPT ![r] = verdict.feedback]
                     /\ attempts' = [attempts EXCEPT ![r] =
                           Append(@, PlacementAttempt(i[r], result_path[r],
                                     review[r], verdict.passed, verdict.feedback))]
                     /\ pc' = [pc EXCEPT ![r] = AfterAppend(args[r].on_attempt)]
                     /\ UNCHANGED error
    /\ UNCHANGED <<google_api_key, files, args, i, accumulated_feedback,
                   full_prompt, result_path, review, result>>

\* EXAMINE: the examiner call of attempt i, verdict parsing, attempts.append;
\* texts: the texts the examiner model may answer with
ExamineWith(r, texts) ==
    /\ pc[r] = "examine"
    /\ \E resp \in TextResponses(texts) :
         LET out == CallGeminiText(google_api_key, resp)
             verdict == IF args[r].flavor = "insert"
                        THEN ParseExamine(out.text)
                        ELSE ParseExamineRemoval(out.text)
             missing == \E p \in Range(VerifyInputs(r)) : p \notin DOMAIN files
         IN  /\ Log(r, CallEntry("examiner", i[r], args[r].description,
                                 args[r].additional_instructions, review[r],
                                 ImagesOf(files, VerifyInputs(r)), result_path[r],
                                 missing \/ out.error # "none",
                                 IF missing THEN <<>> ELSE out.text))
             /\ IF missing
                THEN Raise(r, "FileNotFoundError")
                     /\ UNCHANGED <<passed, feedback, attempts>>
                ELSE IF out.error # "none"
                THEN Raise(r, out.error)
                     /\ UNCHANGED <<passed, feedback, attempts>>
                ELSE /\ passed' = [passed EXCEPT ![r] = verdict.passed]
                     /\ feedback' = [feedback EXCEPT ![r] = verdict.feedback]
                     /\ attempts' = [attempts EXCEPT ![r] =
                           Append(@, PlacementAttempt(i[r], result_path[r],
                                     review[r], verdict.passed, verdict.feedback))]
                     /\ pc' = [pc EXCEPT ![r] = AfterAppend(args[r].on_attempt)]
                     /\ UNCHANGED error
    /\ UNCHANGED <<google_api_key, files, args, i, accumulated_feedback,
                   full_prompt, result_path, review, result>>

\* EXAMINE with the examiner answers explored by Spec
Examine(r) == ExamineWith(r, ExaminerTexts)

\* on_attempt(attempt) wrapped in try/except: an observer failure is ignored
Notify_SwallowsError(r) ==
    /\ pc[r] = "notify"
    /\ \E o \in ObserverOutcomes :
         Log(r, CallEntry("observer", attempts[r][Len(attempts[r])].attempt,
                          <<>>, <<>>, <<>>, <<>>, <<>>, o = "raises", <<>>))
    /\ pc' = [pc EXCEPT ![r] = "decide"]
    /\ UNCHANGED <<google_api_key, files, args, i, attempts, accumulated_feedback,
                   full_prompt, result_path, review, passed, feedback, result,
                   error>>

\* on_attempt(attempt)
Notify(r) ==
    /\ pc[r] = "notify"
    /\ \E o \in ObserverOutcomes :
         /\ Log(r, CallEntry("observer", attempts[r][Len(attempts[r])].attempt,
                             <<>>, <<>>, <<>>, <<>>, <<>>, o = "raises", <<>>))
         /\ IF o = "raises"
            THEN Raise(r, "ObserverError")
            ELSE pc' = [pc EXCEPT ![r] = "decide"] /\ UNCHANGED error
    /\ UNCHANGED <<google_api_key, files, args, i, attempts, accumulated_feedback,
                   full_prompt, result_path, review, passed, feedback, result>>

\* Decide without the early return: a pass is treated like a fail
Decide_NoEarlyReturn(r) ==
    /\ pc[r] = "decide"
    /\ accumulated_feedback' = [accumulated_feedback EXCEPT ![r] =
          Append(@, feedback[r])]
    /\ pc' = [pc EXCEPT ![r] = "loop"]
    /\ UNCHANGED <<google_api_key, files, args, i, attempts, full_prompt,
                   result_path, review, passed, feedback, result, error, calls>>

\* Decide that keeps an empty feedback out of the accumulator
Decide_SkipsEmptyFeedback(r) ==
    /\ pc[r] = "decide"
    /\ IF passed[r]
       THEN /\ result' = [result EXCEPT ![r] =
                  VerifiedPlacementResult(result_path[r], TRUE, attempts[r])]
            /\ pc' = [pc EXCEPT ![r] = "returned"]
            /\ UNCHANGED accumulated_feedback
       ELSE /\ accumulated_feedback' = [accumulated_feedback EXCEPT ![r] =
                  IF feedback[r] = <<>> THEN @ ELSE Append(@, feedback[r])]
            /\ pc' = [pc EXCEPT ![r] = "loop"]
            /\ UNCHANGED result
    /\ UNCHANGED <<google_api_key, files, args, i, attempts, full_prompt,
                   result_path, review, passed, feedback, error, calls>>

\* Decide with one accumulator for all runs (a module-level list)
Decide_SharedAccumulator(r) ==
    /\ pc[r] = "decide"
    /\ IF passed[r]
       THEN /\ result' = [result EXCEPT ![r] =
                  VerifiedPlacementResult(result_path[r], TRUE, attempts[r])]
            /\ pc' = [pc EXCEPT ![r] = "returned"]
            /\ UNCHANGED accumulated_feedback
       ELSE /\ accumulated_feedback' =
                  [q \in Runs |-> Append(accumulated_feedback[q], feedback[r])]
            /\ pc' = [pc EXCEPT ![r] = "loop"]
            /\ UNCHANGED result
    /\ UNCHANGED <<google_api_key, files, args, i, attempts, full_prompt,
                   result_path, review, passed, feedback, error, calls>>

\* Decide that returns a pass only at the last attempt and tries again
\* otherwise
Decide_PassOnlyAtLastAttempt(r) ==
    /\ pc[r] = "decide"
    /\ IF passed[r] /\ i[r] = args[r].max_attempts
       THEN /\ result' = [result EXCEPT ![r] =
                  VerifiedPlacementResult(result_path[r], TRUE, attempts[r])]
            /\ pc' = [pc EXCEPT ![r] = "returned"]
            /\ UNCHANGED accumulated_feedback
       ELSE /\ accumulated_feedback' = [accumulated_feedback EXCEPT ![r] =
                  Append(@, feedback[r])]
            /\ pc' = [pc EXCEPT ![r] = "loop"]
            /\ UNCHANGED result
    /\ UNCHANGED <<google_api_key, files, args, i, attempts, full_prompt,
                   result_path, review, passed, feedback, error, calls>>

\* if passed: return ... ; else accumulated_feedback.append(feedback)
Decide(r) ==
    /\ pc[r] = "decide"
    /\ IF passed[r]
       THEN /\ result' = [result EXCEPT ![r] =
                  VerifiedPlacementResult(result_path[r], TRUE, attempts[r])]
            /\ pc' = [pc EXCEPT ![r] = "returned"]
            /\ UNCHANGED accumulated_feedback
       ELSE /\ accumulated_feedback' = [accumulated_feedback EXCEPT ![r] =
                  Append(@, feedback[r])]
            /\ pc' = [pc EXCEPT ![r] = "loop"]
            /\ UNCHANGED result
    /\ UNCHANGED <<google_api_key, files, args, i, attempts, full_prompt,
                   result_path, review, passed, feedback, error, calls>>

\* ReturnExhausted handing back the first attempt's image instead of the last
ReturnExhausted_FirstImage(r) ==
    /\ pc[r] = "loop"
    /\ i[r] >= args[r].max_attempts
    /\ IF result_path[r] = Unbound
       THEN Raise(r, "UnboundLocalError") /\ UNCHANGED result
       ELSE /\ result' = [result EXCEPT ![r] =
                  VerifiedPlacementResult(attempts[r][1].image_path, FALSE,
                                          attempts[r])]
            /\ pc' = [pc EXCEPT ![r] = "returned"]
            /\ UNCHANGED error
    /\ UNCHANGED <<google_api_key, files, args, i, attempts, accumulated_feedback,
                   full_prompt, result_path, review, passed, feedback, calls>>

\* ReturnExhausted with result_path pre-bound: returns even when no attempt ran
ReturnExhausted_NoAttempt(r) ==
    /\ pc[r] = "loop"
    /\ i[r] >= args[r].max_attempts
    /\ result' = [result EXCEPT ![r] =
          VerifiedPlacementResult(result_path[r], FALSE, attempts[r])]
    /\ pc' = [pc EXCEPT ![r] = "returned"]
    /\ UNCHANGED <<google_api_key, files, args, i, attempts, accumulated_feedback,
                   full_prompt, result_path, review, passed, feedback, error,
                   calls>>

\* after the loop: return the last attempt (result_path must be bound)
ReturnExhausted(r) ==
    /\ pc[r] = "loop"
    /\ i[r] >= args[r].max_attempts
    /\ IF result_path[r] = Unbound
       THEN Raise(r, "UnboundLocalError") /\ UNCHANGED result
       ELSE /\ result' = [result EXCEPT ![r] =
                  VerifiedPlacementResult(result_path[r], FALSE, attempts[r])]
            /\ pc' = [pc EXCEPT ![r] = "returned"]
            /\ UNCHANGED error
    /\ UNCHANGED <<google_api_key, files, args, i, attempts, accumulated_feedback,
                   full_prompt, result_path, review, passed, feedback, calls>>

Next ==
    \E r \in Runs :
        \/ NextAttempt(r) /\ LoopOnly
        \/ Generate(r) /\ LoopOnly
        \/ Review(r) /\ LoopOnly
        \/ Examine(r) /\ LoopOnly
        \/ Notify(r) /\ LoopOnly
        \/ Decide(r) /\ LoopOnly
        \/ ReturnExhausted(r) /\ LoopOnly

Spec == Init /\ [][Next]_vars

\* one loop invocation with a configured key and a placement description
InitFair ==
    /\ Init
    /\ google_api_key
    /\ args[1].description = DescNearDoor
    /\ args[1].additional_instructions = <<>>

\* the interpreter runs the synchronous loop on: a step that can be taken is
\* taken (every external call comes back, with a value or an exception)
FairSpec == InitFair /\ [][Next]_vars /\ WF_vars(Next)

(***************************************************************************)
(* Verdict parsing over many examiner answers: one attempt per run, the    *)
(* examiner answering with any text of ExaminerTextsWide                   *)
(***************************************************************************)
ParseArgs ==
    [flavor : {"insert"}, room_image_path : {RoomPathA},
     item_image_path : {ItemPathA}, description : {DescNearDoor},
     additional_instructions : {<<>>}, max_attempts : {1},
     on_attempt : {TRUE}]
    \cup
    [flavor : {"remove"}, room_image_path : {RoomPathA},
     item_image_path : {<<>>}, description : {DescNearDoor},
     additional_instructions : {<<>>}, max_attempts : {1},
     on_attempt : {TRUE}]

InitParse ==
    /\ google_api_key = TRUE
    /\ files = [p \in {RoomPathA, ItemPathA} |->
                   IF p = RoomPathA THEN Uploaded ELSE UploadedItem]
    /\ \E a \in ParseArgs :
          args = [r \in Runs |-> IF r = 1 THEN a ELSE IdleArgs]
    /\ pc = [r \in Runs |-> IF r = 1 THEN "loop" ELSE "idle"]
    /\ InitLocals
    /\ NoAppNoBatch

\* EXAMINE with the examiner answers explored by SpecParse
ExamineWide(r) == ExamineWith(r, ExaminerTextsWide)

NextParse ==
    \E r \in Runs :
        \/ NextAttempt(r) /\ LoopOnly
        \/ Generate(r) /\ LoopOnly
        \/ Review(r) /\ LoopOnly
        \/ ExamineWide(r) /\ LoopOnly
        \/ Notify(r) /\ LoopOnly
        \/ Decide(r) /\ LoopOnly
        \/ ReturnExhausted(r) /\ LoopOnly

SpecParse == InitParse /\ [][NextParse]_vars

(***************************************************************************)
(* Two loop invocations interleaved (two sessions of the app): both runs   *)
(* share Config.OUTPUT_DIR; the models answer with fewer alternatives      *)
(***************************************************************************)
\* the arguments of run 1: room photo A
TwoArgsFirst ==
    [flavor : {"insert"}, room_image_path : {RoomPathA},
     item_image_path : {ItemPathA}, description : {DescNearDoor},
     additional_instructions : {<<>>}, max_attempts : 1..MaxConcAttempts,
     on_attempt : {TRUE}]
    \cup
    [flavor : {"remove"}, room_image_path : {RoomPathA},
     item_image_path : {<<>>}, description : {DescNearDoor},
     additional_instructions : {<<>>}, max_attempts : 1..MaxConcAttempts,
     on_attempt : {TRUE}]

\* the max_attempts arguments of run 2
SecondRunAttempts == {1, 2}

\* the arguments of run 2: the same photo, a photo with the same stem, or
\* another photo
TwoArgsSecond ==
    [flavor : {"insert"}, room_image_path : {RoomPathA, RoomPathB, RoomPathC},
     item_image_path : {ItemPathA}, description : {DescNearDoor},
     additional_instructions : {InstrOak}, max_attempts : SecondRunAttempts,
     on_attempt : {FALSE}]
    \cup
    [flavor : {"remove"}, room_image_path : {RoomPathA, RoomPathB, RoomPathC},
     item_image_path : {<<>>}, description : {DescNearDoor},
     additional_instructions : {InstrOak}, max_attempts : SecondRunAttempts,
     on_attempt : {FALSE}]

InitTwo ==
    /\ google_api_key = TRUE
    /\ files = [p \in {RoomPathA, RoomPathB, RoomPathC, ItemPathA} |->
                   IF p = RoomPathA THEN Uploaded
                   ELSE IF p = RoomPathB THEN UploadedRoomB
                   ELSE IF p = RoomPathC THEN UploadedRoomC
                   ELSE UploadedItem]
    /\ \E a \in TwoArgsFirst, b \in TwoArgsSecond :
          args = [r \in Runs |-> IF r = 1 THEN a ELSE b]
    /\ pc = [r \in Runs |-> "loop"]
    /\ InitLocals
    /\ NoAppNoBatch

\* GENERATE, the image model answering with an image or raising
GenerateTwo(r) == GenerateWith(r, {"image", "raises"})

\* REVIEW, the reviewer model answering with one text
ReviewTwo(r) == ReviewWith(r, {ReviewSeen})

\* EXAMINE, the examiner model answering with a pass or a fail
ExamineTwo(r) == ExamineWith(r, {RespPassGreat, RespFailShadow})

NextTwo ==
    \E r \in Runs :
        \/ NextAttempt(r) /\ LoopOnly
        \/ GenerateTwo(r) /\ LoopOnly
        \/ ReviewTwo(r) /\ LoopOnly
        \/ ExamineTwo(r) /\ LoopOnly
        \/ Notify(r) /\ LoopOnly
        \/ Decide(r) /\ LoopOnly
        \/ ReturnExhausted(r) /\ LoopOnly

SpecTwo == InitTwo /\ [][NextTwo]_vars

(***************************************************************************)
(* Two loop invocations with the same description and instructions, of the *)
(* same or of different flavors, whose examiners give different feedback   *)
(***************************************************************************)
\* the max_attempts argument of both runs
PairAttempts == 2

\* the arguments of one run of the pair
PairArgs(on_attempt) ==
    {[flavor |-> "insert", room_image_path |-> RoomPathA,
      item_image_path |-> ItemPathA, description |-> DescNearDoor,
      additional_instructions |-> InstrOak, max_attempts |-> PairAttempts,
      on_attempt |-> on_attempt],
     [flavor |-> "remove", room_image_path |-> RoomPathA,
      item_image_path |-> <<>>, description |-> DescNearDoor,
      additional_instructions |-> InstrOak, max_attempts |-> PairAttempts,
      on_attempt |-> on_attempt]}

InitPair ==
    /\ google_api_key = TRUE
    /\ files = [p \in {RoomPathA, ItemPathA} |->
                   IF p = RoomPathA THEN Uploaded ELSE UploadedItem]
    /\ \E a \in PairArgs(TRUE), b \in PairArgs(FALSE) :
          /\ a.flavor = "insert"
          /\ args = [r \in Runs |-> IF r = 1 THEN a ELSE b]
    /\ pc = [r \in Runs |-> "loop"]
    /\ InitLocals
    /\ NoAppNoBatch

\* GENERATE, the image model answering with an image
GeneratePair(r) == GenerateWith(r, {"image"})

\* REVIEW, the reviewer model answering with one text
ReviewPair(r) == ReviewWith(r, {ReviewSeen})

\* EXAMINE, the examiner model answering with a pass or either fail
ExaminePair(r) == ExamineWith(r, {RespPassGreat, RespFailShadow, RespFailAngle})

NextPair ==
    \E r \in Runs :
        \/ NextAttempt(r) /\ LoopOnly
        \/ GeneratePair(r) /\ LoopOnly
        \/ ReviewPair(r) /\ LoopOnly
        \/ ExaminePair(r) /\ LoopOnly
        \/ Notify(r) /\ LoopOnly
        \/ Decide(r) /\ LoopOnly
        \/ ReturnExhausted(r) /\ LoopOnly

SpecPair == InitPair /\ [][NextPair]_vars

(***************************************************************************)
(* app.py: one browser session. Streamlit runs the script from the top on   *)
(* every interaction; an action is one such script run.                    *)
(***************************************************************************)
\* number of interactions of the user explored
MaxInteractions == 5

\* the names of the files the user uploads as room photo
UploadNames == {NameRoom, NameDen}

\* the photos the user has (two different pictures)
RoomData == {1, 2}

\* the points of the layout the user clicks on (display scale 1)
ClickPoints == {<<1, 1>>, <<2, 3>>}

\* process_single in Step 2: an image, or an exception
LayoutOutcomes == {"image", "raises"}

\* the verified edit in Step 4: the number of attempts whose image was
\* written, and whether the loop then returned or an exception ended it
EditOutcomes ==
    {[raised |-> TRUE, attempts |-> n] : n \in 0..1}
    \cup {[raised |-> FALSE, attempts |-> n] : n \in 1..2}

\* Step 1 of a script run: a file in the uploader is saved and becomes the
\* room image
RunStep1(ss, fs, w) ==
    IF w.room_uploader # NoFile
    THEN LET room_save_path == InputDir \o w.room_uploader.name
         IN  [ss |-> [ss EXCEPT !.room_image_path = room_save_path],
              fs |-> WriteFile(fs, room_save_path,
                               [kind |-> "room", data |-> w.room_uploader.data])]
    ELSE [ss |-> ss, fs |-> fs]

\* the layout is on display (Step 3 is rendered)
LayoutShown(ss, fs) ==
    ss.layout_image_path # None /\ ss.layout_image_path \in DOMAIN fs

\* Step 3 of a script run: coordinates of the click component that differ
\* from click_coords are stored, the red dot is drawn and a rerun is asked for
RunStep3(ss, fs, w) ==
    IF /\ LayoutShown(ss, fs)
       /\ w.layout_click # None
       /\ w.layout_click # ss.click_coords
    THEN LET dot_path == OutputDir \o Stem(ss.layout_image_path) \o RedDotTag
         IN  [ss |-> [ss EXCEPT !.click_coords = w.layout_click,
                                !.layout_with_dot_path = dot_path],
              fs |-> WriteFile(fs, dot_path,
                               [kind |-> "dot", layout |-> fs[ss.layout_image_path],
                                xy |-> w.layout_click]),
              rerun |-> TRUE]
    ELSE [ss |-> ss, fs |-> fs, rerun |-> FALSE]

\* Step 4 is rendered
Step4Rendered(ss, fs) ==
    ss.layout_with_dot_path # None /\ ss.layout_with_dot_path \in DOMAIN fs

\* the user may interact: the script is not about to rerun
Interact ==
    /\ ~script.rerun
    /\ script.interactions < MaxInteractions

\* the app is opened in a fresh session, nothing is on disk
InitApp ==
    /\ google_api_key = TRUE
    /\ files = [p \in {} |-> NoFile]
    /\ args = [r \in Runs |-> IdleArgs]
    /\ pc = [r \in Runs |-> "idle"]
    /\ InitLocals
    /\ NoAppNoBatch

\* the user puts a file into the room uploader
UploadRoom ==
    /\ Interact
    /\ \E name \in UploadNames, data \in RoomData :
         LET w == [widgets EXCEPT !.room_uploader = [name |-> name, data |-> data]]
             s1 == RunStep1(session_state, files, w)
             s3 == RunStep3(s1.ss, s1.fs, w)
         IN  /\ w # widgets
             /\ widgets' = w
             /\ session_state' = s3.ss
             /\ files' = s3.fs
             /\ script' = [rerun |-> s3.rerun,
                           interactions |-> script.interactions + 1,
                           last_call |-> NoCall]
    /\ UNCHANGED <<loopVars, batch>>

\* the user takes the file out of the room uploader
ClearUpload ==
    /\ Interact
    /\ widgets.room_uploader # NoFile
    /\ LET w == [widgets EXCEPT !.room_uploader = NoFile]
           s1 == RunStep1(session_state, files, w)
           s3 == RunStep3(s1.ss, s1.fs, w)
       IN  /\ widgets' = w
           /\ session_state' = s3.ss
           /\ files' = s3.fs
           /\ script' = [rerun |-> s3.rerun,
                         interactions |-> script.interactions + 1,
                         last_call |-> NoCall]
    /\ UNCHANGED <<loopVars, batch>>

\* the layout path of process_single: output_dir / f"{stem}_edited{suffix}"
LayoutOutput(image_path) ==
    OutputDir \o Stem(image_path) \o EditedTag \o Suffix(image_path)

\* a layout generation that keeps the marker and the result of the old layout
GenerateLayout_KeepsDownstream ==
    /\ Interact
    /\ session_state.room_image_path # None
    /\ \E outcome \in LayoutOutcomes :
         LET s1 == RunStep1(session_state, files, widgets)
             room == s1.ss.room_image_path
             ok == /\ room \in DOMAIN s1.fs
                   /\ google_api_key
                   /\ outcome = "image"
             output_path == LayoutOutput(room)
             s3 == RunStep3(s1.ss, s1.fs, widgets)
         IN  IF ok
             THEN /\ files' = WriteFile(s1.fs, output_path,
                                        [kind |-> "layout", room |-> s1.fs[room].data,
                                         serial |-> script.interactions + 1])
                  /\ session_state' =
                        [s1.ss EXCEPT !.layout_image_path = output_path]
                  /\ script' = [rerun |-> TRUE,
                                interactions |-> script.interactions + 1,
                                last_call |-> [kind |-> "process_single",
                                               raised |-> FALSE,
                                               path |-> output_path]]
             ELSE /\ files' = s3.fs
                  /\ session_state' = s3.ss
                  /\ script' = [rerun |-> s3.rerun,
                                interactions |-> script.interactions + 1,
                                last_call |-> [kind |-> "process_single",
                                               raised |-> TRUE, path |-> None]]
    /\ UNCHANGED <<widgets, loopVars, batch>>

\* the user presses Generate Layout or Retry Layout
GenerateLayout ==
    /\ Interact
    /\ session_state.room_image_path # None
    /\ \E outcome \in LayoutOutcomes :
         LET s1 == RunStep1(session_state, files, widgets)
             room == s1.ss.room_image_path
             ok == /\ room \in DOMAIN s1.fs
                   /\ google_api_key
                   /\ outcome = "image"
             output_path == LayoutOutput(room)
             s3 == RunStep3(s1.ss, s1.fs, widgets)
         IN  IF ok
             THEN /\ files' = WriteFile(s1.fs, output_path,
                                        [kind |-> "layout", room |-> s1.fs[room].data,
                                         serial |-> script.interactions + 1])
                  /\ session_state' =
                        [s1.ss EXCEPT !.layout_image_path = output_path,
                                      !.layout_with_dot_path = None,
                                      !.click_coords = None,
                                      !.result_image_path = None]
                  /\ script' = [rerun |-> TRUE,
                                interactions |-> script.interactions + 1,
                                last_call |-> [kind |-> "process_single",
                                               raised |-> FALSE,
                                               path |-> output_path]]
             ELSE /\ files' = s3.fs
                  /\ session_state' = s3.ss
                  /\ script' = [rerun |-> s3.rerun,
                                interactions |-> script.interactions + 1,
                                last_call |-> [kind |-> "process_single",
                                               raised |-> TRUE, path |-> None]]
    /\ UNCHANGED <<widgets, loopVars, batch>>

\* st.rerun(): the script runs again, no button is pressed
Rerun ==
    /\ script.rerun
    /\ LET s1 == RunStep1(session_state, files, widgets)
           s3 == RunStep3(s1.ss, s1.fs, widgets)
       IN  /\ session_state' = s3.ss
           /\ files' = s3.fs
           /\ script' = [script EXCEPT !.rerun = s3.rerun, !.last_call = NoCall]
    /\ UNCHANGED <<widgets, loopVars, batch>>

\* the user clicks on the layout
ClickLayout ==
    /\ Interact
    /\ LayoutShown(session_state, files)
    /\ \E c \in ClickPoints :
         LET w == [widgets EXCEPT !.layout_click = c]
             s1 == RunStep1(session_state, files, w)
             s3 == RunStep3(s1.ss, s1.fs, w)
         IN  /\ w # widgets
             /\ widgets' = w
             /\ session_state' = s3.ss
             /\ files' = s3.fs
             /\ script' = [rerun |-> s3.rerun,
                           interactions |-> script.interactions + 1,
                           last_call |-> NoCall]
    /\ UNCHANGED <<loopVars, batch>>

\* the paths of the attempts 1..n of a verified edit of room
EditOutputs(mode, room, n) ==
    {IF mode = "insert" THEN AttemptOutputInsert(room, ItemPathA, k)
     ELSE AttemptOutputRemove(room, k) : k \in 1..n}

\* the user presses Insert Item (an item image is in the item uploader) or
\* Remove Item
Edit ==
    /\ Interact
    /\ Step4Rendered(session_state, files)
    /\ \E mode \in {"insert", "remove"}, outcome \in EditOutcomes :
         LET s1 == RunStep1(session_state, files, widgets)
             s3 == RunStep3(s1.ss, s1.fs, widgets)
             room == s3.ss.room_image_path
             fs4 == IF mode = "insert"
                    THEN WriteFile(s3.fs, ItemPathA, [kind |-> "item"])
                    ELSE s3.fs
             image == [kind |-> "result", room |-> fs4[room].data,
                       dot |-> fs4[s3.ss.layout_with_dot_path]]
             final_image_path ==
                 IF mode = "insert"
                 THEN AttemptOutputInsert(room, ItemPathA, outcome.attempts)
                 ELSE AttemptOutputRemove(room, outcome.attempts)
         IN  IF s3.rerun
             THEN /\ files' = s3.fs
                  /\ session_state' = s3.ss
                  /\ script' = [rerun |-> TRUE,
                                interactions |-> script.interactions + 1,
                                last_call |-> NoCall]
             ELSE IF outcome.raised
             THEN /\ files' = [q \in (DOMAIN fs4) \cup EditOutputs(mode, room, outcome.attempts) |->
                                 IF q \in EditOutputs(mode, room, outcome.attempts)
                                 THEN image ELSE fs4[q]]
                  /\ session_state' = s3.ss
                  /\ script' = [rerun |-> FALSE,
                                interactions |-> script.interactions + 1,
                                last_call |-> [kind |-> mode, raised |-> TRUE,
                                               path |-> None]]
             ELSE /\ files' = [q \in (DOMAIN fs4) \cup EditOutputs(mode, room, outcome.attempts) |->
                                 IF q \in EditOutputs(mode, room, outcome.attempts)
                                 THEN image ELSE fs4[q]]
                  /\ session_state' =
                        [s3.ss EXCEPT !.result_image_path = final_image_path,
                                      !.verification_result = [attempts |-> outcome.attempts]]
                  /\ script' = [rerun |-> FALSE,
                                interactions |-> script.interactions + 1,
                                last_call |-> [kind |-> mode, raised |-> FALSE,
                                               path |-> final_image_path]]
    /\ UNCHANGED <<widgets, loopVars, batch>>

NextApp ==
    \/ UploadRoom
    \/ ClearUpload
    \/ GenerateLayout
    \/ Rerun
    \/ ClickLayout
    \/ Edit

SpecApp == InitApp /\ [][NextApp]_vars

(***************************************************************************)
(* image_editor.py: one call of ImageEditingPipeline.process_batch         *)
(***************************************************************************)
\* longest image_paths, prompts and output_names list explored
MaxBatch == 2

\* the sequences over S of length 0..n
SeqsUpTo(S, n) == UNION {[1..k -> S] : k \in 0..n}

\* image_paths: files that exist (RoomPathA) or do not (RoomPathB)
BatchImagePaths == SeqsUpTo({RoomPathA, RoomPathB}, MaxBatch)

\* prompts: one string for all images, or a list of strings
BatchPrompts ==
    {[str |-> TRUE, items |-> <<DescNearDoor>>]}
    \cup {[str |-> FALSE, items |-> s] : s \in SeqsUpTo({DescNearDoor}, MaxBatch)}

\* output_names: None, or a list of file names
BatchOutputNames ==
    {[none |-> TRUE, items |-> <<>>]}
    \cup {[none |-> FALSE, items |-> s] : s \in SeqsUpTo({NameDen}, MaxBatch)}

\* what self.client.edit_image can do
EditImageOutcomes == {"image", "raises"}

\* process_batch has been called; the room photo A is on disk
InitBatch ==
    /\ google_api_key = TRUE
    /\ files = [p \in {RoomPathA} |-> Uploaded]
    /\ args = [r \in Runs |-> IdleArgs]
    /\ pc = [r \in Runs |-> "idle"]
    /\ InitLocals
    /\ session_state = Defaults
    /\ widgets = NoWidgets
    /\ script = NoScript
    /\ \E paths \in BatchImagePaths, prompts \in BatchPrompts,
          names \in BatchOutputNames :
          batch = [NoBatch EXCEPT !.pc = "check", !.image_paths = paths,
                                  !.prompts = prompts, !.output_names = names]

\* prompts after `if isinstance(prompts, str): prompts = [prompts] * len(...)`
PromptList(b) ==
    IF b.prompts.str
    THEN [k \in 1..Len(b.image_paths) |-> b.prompts.items[1]]
    ELSE b.prompts.items

\* `if output_names`: the argument is neither None nor an empty list
NamesGiven(b) == ~b.output_names.none /\ b.output_names.items # <<>>

\* the two length checks before the loop
BatchCheck ==
    /\ batch.pc = "check"
    /\ IF Len(PromptList(batch)) # Len(batch.image_paths)
       THEN batch' = [batch EXCEPT !.pc = "raised", !.error = "ValueError"]
       ELSE IF NamesGiven(batch)
               /\ Len(batch.output_names.items) # Len(batch.image_paths)
       THEN batch' = [batch EXCEPT !.pc = "raised", !.error = "ValueError"]
       ELSE batch' = [batch EXCEPT !.pc = "loop"]
    /\ UNCHANGED <<files, loopVars, session_state, widgets, script>>

\* one pass of the loop: process_single on the next image, inside try/except
BatchProcess ==
    /\ batch.pc = "loop"
    /\ batch.i < Len(batch.image_paths)
    /\ \E outcome \in EditImageOutcomes :
         LET img_path == batch.image_paths[batch.i + 1]
             prompt == PromptList(batch)[batch.i + 1]
             output_name == IF NamesGiven(batch)
                            THEN batch.output_names.items[batch.i + 1] ELSE None
             raised == img_path \notin DOMAIN files \/ outcome = "raises"
             output_path == IF output_name # None THEN OutputDir \o output_name
                            ELSE LayoutOutput(img_path)
             call == [index |-> batch.i + 1, image |-> img_path,
                      prompt |-> prompt, raised |-> raised,
                      path |-> IF raised THEN None ELSE output_path]
         IN  /\ files' = IF raised THEN files
                         ELSE WriteFile(files, output_path,
                                        [by |-> 0, attempt |-> batch.i + 1])
             /\ batch' = [batch EXCEPT !.i = @ + 1,
                                       !.results = Append(@, call.path),
                                       !.processed = Append(@, call)]
    /\ UNCHANGED <<loopVars, session_state, widgets, script>>

\* return results
BatchReturn ==
    /\ batch.pc = "loop"
    /\ batch.i >= Len(batch.image_paths)
    /\ batch' = [batch EXCEPT !.pc = "returned"]
    /\ UNCHANGED <<files, loopVars, session_state, widgets, script>>

NextBatch ==
    \/ BatchCheck
    \/ BatchProcess
    \/ BatchReturn

SpecBatch == InitBatch /\ [][NextBatch]_vars

(***************************************************************************)
(* Properties                                                              *)
(***************************************************************************)
Last(s) == s[Len(s)]

\* number of calls of one kind that run r has made
CallCount(r, kind) ==
    Cardinality({k \in 1..Len(calls[r]) : calls[r][k].kind = kind})

\* the log entries of one kind made for attempt n of run r
CallsFor(r, kind, n) ==
    {k \in 1..Len(calls[r]) : calls[r][k].kind = kind /\ calls[r][k].attempt = n}

\* the texts of list occur in s one after the other, left to right
RECURSIVE ContainsInOrder(_, _)
ContainsInOrder(s, list) ==
    IF list = <<>> THEN TRUE
    ELSE \E k \in 0..(Len(s) - Len(list[1])) :
            /\ SubSeq(s, k + 1, k + Len(list[1])) = list[1]
            /\ ContainsInOrder(SubSeq(s, k + Len(list[1]) + 1, Len(s)), Tail(list))

\* C1: once the Examiner has passed attempt k (the last attempt in the
\* history), exactly k generate-review-examine cycles have been made, no
\* Compositor call follows, the run can only notify the observer and return,
\* and what it returns is passed=True with attempt k's image path.
C1_PassStopsAtAttemptK ==
    \A r \in Runs :
        (attempts[r] # <<>> /\ Last(attempts[r]).passed) =>
            LET k == Len(attempts[r])
            IN  /\ k <= args[r].max_attempts
                /\ i[r] = k
                /\ CallCount(r, "compositor") = k
                /\ CallCount(r, "reviewer") = k
                /\ CallCount(r, "examiner") = k
                /\ pc[r] \in {"notify", "decide", "returned", "raised"}
                /\ pc[r] = "raised" => error[r] = "ObserverError"
                /\ pc[r] = "returned" =>
                      /\ result[r].passed
                      /\ Len(result[r].attempts) = k
                      /\ result[r].final_image_path = attempts[r][k].image_path
                      /\ \E c \in CallsFor(r, "compositor", k) :
                            calls[r][c].path = result[r].final_image_path

\* a run with max_attempts = 3 that failed attempt 1, passed attempt 2 and returned
C1_Witness ==
    \E r \in Runs :
        /\ pc[r] = "returned"
        /\ args[r].max_attempts = 3
        /\ Len(attempts[r]) = 2
        /\ ~attempts[r][1].passed
        /\ attempts[r][2].passed

\* C2: when every attempt 1..N has failed (N = max_attempts >= 1), exactly N
\* cycles have been made and the run returns normally with passed=False, the
\* image path of attempt N and the history of all N attempts; a passed=False
\* result is returned only in that case.
C2_ExhaustionReturnsLast ==
    \A r \in Runs :
        LET n == args[r].max_attempts
            allFailed == /\ Len(attempts[r]) = n
                         /\ \A j \in 1..n : ~attempts[r][j].passed
        IN  /\ (pc[r] # "idle" /\ n >= 1 /\ allFailed) =>
                  /\ i[r] = n
                  /\ CallCount(r, "compositor") = n
                  /\ CallCount(r, "reviewer") = n
                  /\ CallCount(r, "examiner") = n
                  /\ pc[r] \in {"notify", "decide", "loop", "returned", "raised"}
                  /\ pc[r] = "raised" => error[r] = "ObserverError"
                  /\ pc[r] = "returned" =>
                        /\ ~result[r].passed
                        /\ result[r].attempts = attempts[r]
                        /\ result[r].final_image_path = attempts[r][n].image_path
                        /\ \E c \in CallsFor(r, "compositor", n) :
                              calls[r][c].path = result[r].final_image_path
            /\ (pc[r] = "returned" /\ ~result[r].passed) => (n >= 1 /\ allFailed)

\* a run with max_attempts = 3 that failed three times and returned
C2_Witness ==
    \E r \in Runs :
        /\ pc[r] = "returned"
        /\ ~result[r].passed
        /\ args[r].max_attempts = 3
        /\ Len(result[r].attempts) = 3

\* C3: the prompt of every Compositor call of attempt n > 1 contains the
\* original description followed by the feedback of every failed attempt
\* 1..n-1, in chronological order.
C3_FeedbackCumulative ==
    \A r \in Runs :
        \A k \in 1..Len(calls[r]) :
            (calls[r][k].kind = "compositor" /\ calls[r][k].attempt > 1) =>
                LET n == calls[r][k].attempt
                IN  /\ Len(attempts[r]) >= n - 1
                    /\ \A j \in 1..(n - 1) : ~attempts[r][j].passed
                    /\ StartsWith(calls[r][k].text, args[r].description)
                    /\ ContainsInOrder(calls[r][k].text,
                          <<args[r].description>>
                          \o [j \in 1..(n - 1) |-> attempts[r][j].feedback])

\* attempt 3 is generated after 'shadow missing' and then 'wrong angle'
C3_Witness ==
    \E r \in Runs :
        /\ args[r].description = DescNearDoor
        /\ Len(attempts[r]) >= 2
        /\ attempts[r][1].feedback = Strip(AfterFirstColon(SplitLines(RespFailShadow)[2]))
        /\ attempts[r][2].feedback = Strip(AfterFirstColon(SplitLines(RespFailAngle)[2]))
        /\ CallsFor(r, "compositor", 3) # {}

\* C4 (as claimed): with max_attempts < 1 the run fails with InvalidInput
\* before any external call and never returns a result (stated for a
\* non-empty description, so that only max_attempts is malformed).
C4_InvalidInputOnBadMaxAttempts ==
    \A r \in Runs :
        (pc[r] # "idle" /\ args[r].max_attempts < 1
                       /\ args[r].description # <<>>) =>
            /\ calls[r] = <<>>
            /\ result[r] = NoResult
            /\ pc[r] \in {"loop", "raised"}
            /\ pc[r] = "raised" => error[r] = "InvalidInput"

\* C5 (as claimed): with an empty description the run fails with InvalidInput
\* before any external call; no attempt is performed, no artifact is written
\* (stated for max_attempts >= 1, so that only the description is malformed).
C5_EmptyDescriptionRejected ==
    \A r \in Runs :
        (pc[r] # "idle" /\ args[r].description = <<>>
                       /\ args[r].max_attempts >= 1) =>
            /\ calls[r] = <<>>
            /\ attempts[r] = <<>>
            /\ \A p \in DOMAIN files : files[p].by # r
            /\ result[r] = NoResult
            /\ pc[r] = "raised" => error[r] = "InvalidInput"

\* C6: on every return the history is non-empty, has one entry per
\* generate-review-examine cycle performed, and is no longer than max_attempts.
C6_HistoryMatchesCycles ==
    \A r \in Runs :
        pc[r] = "returned" =>
            LET n == Len(result[r].attempts)
            IN  /\ result[r].returned
                /\ n >= 1
                /\ n <= args[r].max_attempts
                /\ CallCount(r, "compositor") = n
                /\ CallCount(r, "reviewer") = n
                /\ CallCount(r, "examiner") = n
                /\ \A k \in 1..Len(calls[r]) :
                      calls[r][k].kind # "observer" => ~calls[r][k].raised

\* a run with max_attempts = 3 that returned after two cycles
C6_Witness ==
    \E r \in Runs :
        /\ pc[r] = "returned"
        /\ args[r].max_attempts = 3
        /\ Len(result[r].attempts) = 2
        /\ CallCount(r, "examiner") = 2

\* C7: on every return final_image_path and passed are those of the last
\* Attempt of the returned history.
C7_ResultMatchesLastAttempt ==
    \A r \in Runs :
        pc[r] = "returned" =>
            /\ result[r].attempts # <<>>
            /\ result[r].final_image_path = Last(result[r].attempts).image_path
            /\ result[r].passed = Last(result[r].attempts).passed

\* a returned run whose second attempt passed after a first one failed
C7_Witness ==
    \E r \in Runs :
        /\ pc[r] = "returned"
        /\ result[r].passed
        /\ Len(result[r].attempts) = 2
        /\ result[r].attempts[1].image_path # result[r].final_image_path

\* C8: when the Compositor, Reviewer or Examiner call of attempt n raises, that
\* call is the last external call of the run, the run ends with the exception
\* and without a result, the same sub-step was called once only, and neither
\* an Attempt nor a feedback entry records the failure.
C8_UpstreamErrorAborts ==
    \A r \in Runs :
        \A k \in 1..Len(calls[r]) :
            (calls[r][k].raised /\ calls[r][k].kind # "observer") =>
                LET n == calls[r][k].attempt
                IN  /\ k = Len(calls[r])
                    /\ pc[r] = "raised"
                    /\ error[r] \in {"FileNotFoundError", "ValueError", "APIError"}
                    /\ result[r] = NoResult
                    /\ i[r] = n
                    /\ Cardinality(CallsFor(r, calls[r][k].kind, n)) = 1
                    /\ Len(attempts[r]) = n - 1
                    /\ Len(accumulated_feedback[r]) = n - 1

\* the Reviewer call of attempt 2 raised in a run that allows 3 attempts
C8_Witness ==
    \E r \in Runs :
        /\ args[r].max_attempts = 3
        /\ calls[r] # <<>>
        /\ Last(calls[r]).kind = "reviewer"
        /\ Last(calls[r]).attempt = 2
        /\ Last(calls[r]).raised

\* C9: with an observer supplied, every Examiner call that returned is
\* followed directly by the observer call for the same attempt (so before the
\* return and before the next Compositor call), the observer is called once
\* per attempt, in attempt order, only for attempts already in the history,
\* and as many times as the returned history is long.
C9_ObserverOncePerAttempt ==
    \A r \in Runs :
        args[r].on_attempt =>
            LET L == calls[r]
                obs == {k \in 1..Len(L) : L[k].kind = "observer"}
            IN  /\ \A k \in obs :
                      /\ k > 1
                      /\ L[k - 1].kind = "examiner"
                      /\ ~L[k - 1].raised
                      /\ L[k - 1].attempt = L[k].attempt
                      /\ L[k].attempt <= Len(attempts[r])
                /\ \A k \in 1..Len(L) :
                      (L[k].kind = "examiner" /\ ~L[k].raised) =>
                          IF k = Len(L) THEN pc[r] = "notify"
                          ELSE /\ L[k + 1].kind = "observer"
                               /\ L[k + 1].attempt = L[k].attempt
                /\ \A k1, k2 \in obs : k1 < k2 => L[k1].attempt < L[k2].attempt
                /\ \A n \in 1..Len(attempts[r]) :
                      Cardinality(CallsFor(r, "observer", n)) <= 1
                /\ pc[r] = "returned" =>
                      /\ Cardinality(obs) = Len(result[r].attempts)
                      /\ \A n \in 1..Len(result[r].attempts) :
                            Cardinality(CallsFor(r, "observer", n)) = 1

\* a run with an observer returned after three attempts
C9_Witness ==
    \E r \in Runs :
        /\ args[r].on_attempt
        /\ pc[r] = "returned"
        /\ Len(result[r].attempts) = 3
        /\ CallCount(r, "observer") = 3

\* C10: when the observer raises for attempt n, that call is the last call of
\* the run: the run ends with the observer's exception and without a result,
\* and no further attempt is started, whatever the verdict of attempt n.
C10_ObserverErrorPropagates ==
    \A r \in Runs :
        \A k \in 1..Len(calls[r]) :
            (calls[r][k].kind = "observer" /\ calls[r][k].raised) =>
                /\ k = Len(calls[r])
                /\ pc[r] = "raised"
                /\ error[r] = "ObserverError"
                /\ result[r] = NoResult
                /\ i[r] = calls[r][k].attempt
                /\ Len(accumulated_feedback[r]) = calls[r][k].attempt - 1

\* the observer raised for a failed attempt 1 with attempts left
C10_Witness ==
    \E r \in Runs :
        /\ args[r].max_attempts = 3
        /\ calls[r] # <<>>
        /\ Last(calls[r]).kind = "observer"
        /\ Last(calls[r]).raised
        /\ Last(calls[r]).attempt = 1
        /\ ~attempts[r][1].passed

\* "VERDICT:"
VerdictToken ==
    <<"V","E","R","D","I","C","T",":">>

\* "looks great"
LooksGreat ==
    <<"l","o","o","k","s"," ","g","r","e","a","t">>

\* "chair too small, scale up by 20%"
ChairFeedback ==
    <<"c","h","a","i","r"," ","t","o","o"," ","s","m","a","l","l",","," ",
      "s","c","a","l","e"," ","u","p"," ","b","y"," ","2","0","%">>

(***************************************************************************)
(* The parsing rule of the response contract, stated position by position  *)
(***************************************************************************)
\* the positions where a line of t starts
RefLineStarts(t) == {k \in 1..Len(t) : k = 1 \/ t[k - 1] = "\n"}

\* the upper-cased text at position k of t reads tok
RefReadsAt(t, k, tok) ==
    /\ k + Len(tok) - 1 <= Len(t)
    /\ \A j \in 1..Len(tok) : UpperChar(t[k + j - 1]) = tok[j]

\* the last position of the line of t that position k lies on
RefLineEnd(t, k) ==
    LET nl == {m \in k..Len(t) : t[m] = "\n"}
    IN  IF nl = {} THEN Len(t) ELSE MinOf(nl) - 1

\* s without leading and trailing white space
RECURSIVE RefTrim(_)
RefTrim(s) ==
    IF s = <<>> THEN s
    ELSE IF IsSpace(s[1]) THEN RefTrim(Tail(s))
    ELSE IF IsSpace(s[Len(s)]) THEN RefTrim(SubSeq(s, 1, Len(s) - 1))
    ELSE s

\* the starts of the lines of t that begin with FEEDBACK: in any case
RefFeedbackLines(t) == {k \in RefLineStarts(t) : RefReadsAt(t, k, FeedbackToken)}

\* VERDICT: PASS occurs in t in any case
RefPassed(t) == \E k \in 1..Len(t) : RefReadsAt(t, k, VerdictPassToken)

\* the trimmed rest of the first FEEDBACK: line after its colon
RefFeedback(t) ==
    IF RefFeedbackLines(t) = {} THEN <<>>
    ELSE LET k == MinOf(RefFeedbackLines(t))
         IN  RefTrim(SubSeq(t, k + Len(FeedbackToken), RefLineEnd(t, k)))

\* VERDICT: occurs nowhere in t, in any case
RefNoVerdict(t) == ~\E k \in 1..Len(t) : RefReadsAt(t, k, VerdictToken)

\* the Examiner calls of run r that returned a text
Examined(r) ==
    {k \in 1..Len(calls[r]) : calls[r][k].kind = "examiner" /\ ~calls[r][k].raised}

C13_PassedHasEmptyFeedback ==
    \A r \in Runs : \A j \in 1..Len(attempts[r]) :
        attempts[r][j].passed => attempts[r][j].feedback = <<>>

\* C13 (amended): the feedback of every Attempt, passed or not, is the
\* trimmed text of the first FEEDBACK line of the Examiner's response, and the
\* empty string whenever the response has no FEEDBACK line.
C13_FeedbackIsFeedbackLine ==
    \A r \in Runs : \A j \in 1..Len(attempts[r]) :
        \E k \in Examined(r) :
            /\ calls[r][k].attempt = j
            /\ attempts[r][j].feedback = RefFeedback(calls[r][k].response)
            /\ RefFeedbackLines(calls[r][k].response) = {} =>
                  attempts[r][j].feedback = <<>>

\* a passing Attempt that carries the Examiner's summary
C13_Witness ==
    \E r \in Runs :
        /\ attempts[r] # <<>>
        /\ Last(attempts[r]).passed
        /\ Last(attempts[r]).feedback = LooksGreat

\* C14: for every Examiner response, passed is True iff the upper-cased
\* response contains VERDICT: PASS, feedback is the trimmed text after the
\* first colon of the first line that starts with FEEDBACK: in any case
\* (empty without such a line), the two worked examples come out as stated,
\* and the insertion and the removal parser agree on the response.
C14_ParsingMatchesRule ==
    /\ \A r \in Runs : \A k \in Examined(r) :
          LET t == calls[r][k].response
              a == attempts[r][calls[r][k].attempt]
          IN  /\ Len(attempts[r]) >= calls[r][k].attempt
              /\ a.passed = RefPassed(t)
              /\ a.feedback = RefFeedback(t)
              /\ ParseExamine(t) = ParseExamineRemoval(t)
    /\ ParseExamine(RespPassGreat) = [passed |-> TRUE, feedback |-> LooksGreat]
    /\ ParseExamineRemoval(RespPassGreat)
          = [passed |-> TRUE, feedback |-> LooksGreat]
    /\ ParseExamine(PieceVerdictFail \o <<"\n">> \o PieceFeedbackChair)
          = [passed |-> FALSE, feedback |-> ChairFeedback]
    /\ ParseExamineRemoval(PieceVerdictFail \o <<"\n">> \o PieceFeedbackChair)
          = [passed |-> FALSE, feedback |-> ChairFeedback]

\* 'Verdict: fail\nFeedback: chair too small, scale up by 20%' was examined
C14_Witness ==
    \E r \in Runs : \E k \in Examined(r) :
        /\ calls[r][k].response = PieceVerdictFail \o <<"\n">> \o PieceFeedbackChair
        /\ attempts[r][calls[r][k].attempt].feedback = ChairFeedback
        /\ ~attempts[r][calls[r][k].attempt].passed

\* C15: every Reviewer and Examiner call of an insertion run gets three
\* images (the original room, the image its own attempt produced, the item),
\* every such call of a removal run gets exactly two (the original room, the
\* image its own attempt produced) and never the item image.
C15_ImagesPerFlavor ==
    \A r \in Runs : \A k \in 1..Len(calls[r]) :
        calls[r][k].kind \in {"reviewer", "examiner"} =>
            LET img == calls[r][k].images
                produced == [by |-> r, attempt |-> calls[r][k].attempt]
            IN  IF args[r].flavor = "insert"
                THEN img = <<Uploaded, produced, UploadedItem>>
                ELSE /\ img = <<Uploaded, produced>>
                     /\ \A m \in 1..Len(img) : img[m] # UploadedItem

\* a removal run whose second attempt has been reviewed and examined
C15_Witness ==
    \E r \in Runs :
        /\ args[r].flavor = "remove"
        /\ CallsFor(r, "reviewer", 2) # {}
        /\ CallsFor(r, "examiner", 2) # {}

\* the prompt a Reviewer or Examiner call was made with
PromptOf(r, e) ==
    IF e.kind = "reviewer"
    THEN IF args[r].flavor = "insert"
         THEN ReviewerPrompt(e.text, e.instructions)
         ELSE RemovalReviewerPrompt(e.text, e.instructions)
    ELSE IF args[r].flavor = "insert"
         THEN ExaminerPrompt(e.text, e.instructions, e.review)
         ELSE RemovalExaminerPrompt(e.text, e.instructions, e.review)

\* the intent line of the prompts of run r
IntentOf(r) ==
    (IF args[r].flavor = "insert" THEN IntentLabel ELSE RemovalIntentLabel)
    \o args[r].description \o <<"\n">>

\* what follows the instructions block in the prompt of call e
AfterBlock(e) ==
    IF e.kind = "reviewer" THEN ReviewerTask
    ELSE ExaminerObservations \o e.review \o ExaminerTask

\* the Compositor prompt p has no instructions segment: the description is
\* the whole prompt or is followed directly by the corrections
NoSegment(p, desc) ==
    /\ StartsWith(p, desc)
    /\ \/ p = desc
       \/ StartsWith(SubSeq(p, Len(desc) + 1, Len(p)),
                     PartSeparator \o CorrectionsPreamble)

\* the Compositor prompt p has the instructions segment seg once, between the
\* description and the corrections
OneSegment(p, desc, seg) ==
    LET base == desc \o PartSeparator \o seg
    IN  /\ StartsWith(p, base)
        /\ \/ p = base
           \/ StartsWith(SubSeq(p, Len(base) + 1, Len(p)),
                         PartSeparator \o CorrectionsPreamble)

\* the Reviewer / Examiner prompt of e has no instructions block
NoBlock(r, e) ==
    /\ PromptOf(r, e) = IntentOf(r) \o AfterBlock(e)
    /\ ~Contains(PromptOf(r, e), InstructionsLabel)

\* the Reviewer / Examiner prompt of e has one instructions block for seg
OneBlock(r, e, seg) ==
    PromptOf(r, e)
        = IntentOf(r) \o InstructionsLabel \o seg \o <<"\n">> \o AfterBlock(e)

\* C18 (as claimed): with additional_instructions = "" no prompt has an
\* instructions block or segment nor a leftover of one; with a non-empty
\* additional_instructions every prompt has it exactly once (stated for runs
\* with a non-empty description).
C18_BlockIffNonEmpty ==
    \A r \in Runs : \A k \in 1..Len(calls[r]) :
        LET e == calls[r][k]
            instr == args[r].additional_instructions
        IN  args[r].description = <<>> \/
            /\ e.kind = "compositor" =>
                  IF instr = <<>> THEN NoSegment(e.text, args[r].description)
                  ELSE OneSegment(e.text, args[r].description, RefTrim(instr))
            /\ e.kind \in {"reviewer", "examiner"} =>
                  IF instr = <<>> THEN NoBlock(r, e)
                  ELSE OneBlock(r, e, RefTrim(instr))

\* C18 (amended): with additional_instructions empty or all white space no
\* prompt has an instructions block or segment nor a leftover of one; with
\* any other additional_instructions every prompt has the stripped text
\* exactly once.
C18_BlockIffNonBlank ==
    \A r \in Runs : \A k \in 1..Len(calls[r]) :
        LET e == calls[r][k]
            instr == args[r].additional_instructions
            blank == \A m \in 1..Len(instr) : IsSpace(instr[m])
        IN  /\ e.kind = "compositor" =>
                  IF blank THEN NoSegment(e.text, args[r].description)
                  ELSE OneSegment(e.text, args[r].description, RefTrim(instr))
            /\ e.kind \in {"reviewer", "examiner"} =>
                  /\ e.instructions = instr
                  /\ IF blank THEN NoBlock(r, e)
                     ELSE OneBlock(r, e, RefTrim(instr))

\* with additional_instructions = "" a second attempt was generated after a
\* failure, and its first attempt was examined
C18_Witness ==
    \E r \in Runs :
        /\ args[r].additional_instructions = <<>>
        /\ args[r].description # <<>>
        /\ CallsFor(r, "examiner", 1) # {}
        /\ CallsFor(r, "compositor", 2) # {}

\* C19: every Attempt in the history (and so every Attempt the observer was
\* handed) has all five fields set, from calls of its own attempt that
\* returned: the Compositor's path, the Reviewer's text, the Examiner's
\* verdict and feedback; an attempt one of whose calls raised is not in the
\* history, and the observer is only called for Attempts in the history.
C19_AttemptsComplete ==
    \A r \in Runs :
        /\ \A j \in 1..Len(attempts[r]) :
              LET a == attempts[r][j]
              IN  /\ a.attempt = j
                  /\ a.image_path # Unbound
                  /\ a.review # Unbound
                  /\ a.feedback # Unbound
                  /\ a.passed \in BOOLEAN
                  /\ \E k \in CallsFor(r, "compositor", j) :
                        ~calls[r][k].raised /\ calls[r][k].path = a.image_path
                  /\ \E k \in CallsFor(r, "reviewer", j) :
                        ~calls[r][k].raised /\ calls[r][k].response = a.review
                  /\ \E k \in CallsFor(r, "examiner", j) :
                        /\ ~calls[r][k].raised
                        /\ a.passed = RefPassed(calls[r][k].response)
                        /\ a.feedback = RefFeedback(calls[r][k].response)
        /\ \A k \in 1..Len(calls[r]) :
              /\ (calls[r][k].raised /\ calls[r][k].kind # "observer") =>
                    Len(attempts[r]) < calls[r][k].attempt
              /\ calls[r][k].kind = "observer" =>
                    calls[r][k].attempt <= Len(attempts[r])

\* the Examiner call of attempt 2 raised after attempt 1 was recorded
C19_Witness ==
    \E r \in Runs :
        /\ Len(attempts[r]) = 1
        /\ calls[r] # <<>>
        /\ Last(calls[r]).kind = "examiner"
        /\ Last(calls[r]).attempt = 2
        /\ Last(calls[r]).raised


(***************************************************************************)
(* Artifact paths (two interleaved runs)                                   *)
(***************************************************************************)
\* the log entries of the Compositor calls of run r
Composed(r) == {k \in 1..Len(calls[r]) : calls[r][k].kind = "compositor"}

\* runs r1 and r2 were started with the same room and item identifiers
SameIds(r1, r2) ==
    /\ args[r1].flavor = args[r2].flavor
    /\ Stem(args[r1].room_image_path) = Stem(args[r2].room_image_path)
    /\ args[r1].flavor = "insert" =>
          Stem(args[r1].item_image_path) = Stem(args[r2].item_image_path)

\* C16: within a run the artifact path of attempt i is determined by the room
\* identifier, the item identifier and i; distinct attempts have distinct
\* paths, so the file of a recorded attempt is still there and was not
\* rewritten by a later attempt of the same run; a run with the same
\* identifiers uses the same path name for the same attempt number.
C16_PathsKeyedByAttempt ==
    \A r \in Runs :
        /\ \A k1, k2 \in Composed(r) :
              (calls[r][k1].path = calls[r][k2].path) <=>
                  (calls[r][k1].attempt = calls[r][k2].attempt)
        /\ \A j \in 1..Len(attempts[r]) :
              /\ attempts[r][j].image_path \in DOMAIN files
              /\ files[attempts[r][j].image_path].by = r =>
                    files[attempts[r][j].image_path].attempt = j
        /\ \A r2 \in Runs : SameIds(r, r2) =>
              \A k1 \in Composed(r), k2 \in Composed(r2) :
                  (calls[r][k1].path = calls[r2][k2].path) <=>
                      (calls[r][k1].attempt = calls[r2][k2].attempt)

\* a run has recorded two attempts whose files are both still its own, and
\* the other run, started on another upload with the same identifiers, has
\* composed its first attempt
C16_Witness ==
    \E r \in Runs, r2 \in Runs :
        /\ r2 # r
        /\ SameIds(r, r2)
        /\ args[r].room_image_path # args[r2].room_image_path
        /\ Composed(r2) # {}
        /\ Len(attempts[r]) >= 2
        /\ files[attempts[r][1].image_path] = [by |-> r, attempt |-> 1]
        /\ files[attempts[r][2].image_path] = [by |-> r, attempt |-> 2]
        /\ attempts[r][1].image_path # attempts[r][2].image_path

\* C17 (as claimed): two concurrent runs never write the same artifact path;
\* the image a run reviews, examines and returns as attempt i's image_path is
\* the one its own Compositor call of attempt i produced.
C17_RunsNeverShareArtifacts ==
    \A r \in Runs :
        /\ \A r2 \in Runs \ {r} :
              \A k1 \in Composed(r), k2 \in Composed(r2) :
                  (~calls[r][k1].raised /\ ~calls[r2][k2].raised) =>
                      calls[r][k1].path # calls[r2][k2].path
        /\ \A k \in 1..Len(calls[r]) :
              calls[r][k].kind \in {"reviewer", "examiner"} =>
                  calls[r][k].images[2] =
                      [by |-> r, attempt |-> calls[r][k].attempt]
        /\ pc[r] = "returned" =>
              files[result[r].final_image_path].by = r

(***************************************************************************)
(* Termination                                                             *)
(***************************************************************************)
\* run r has ended: with a pass (PASSED), after max_attempts failed attempts
\* (EXHAUSTED), or with the exception of a call that did not return a value
Finished(r) ==
    \/ /\ pc[r] = "returned"
       /\ Len(result[r].attempts) \in 1..args[r].max_attempts
       /\ \/ result[r].passed
          \/ Len(result[r].attempts) = args[r].max_attempts
    \/ /\ pc[r] = "raised"
       /\ calls[r] # <<>>
       /\ Last(calls[r]).raised

\* one step of the loop as far as the attempt index, the number of attempts
\* and the external calls of run r go
BoundedStep(r) ==
    /\ i'[r] \in {i[r], i[r] + 1}
    /\ (pc[r] = "loop" /\ pc'[r] = "generate") => i'[r] = i[r] + 1
    /\ i'[r] <= args[r].max_attempts
    /\ Cardinality({k \in 1..Len(calls'[r]) : calls'[r][k].kind = "compositor"})
          <= args[r].max_attempts
    /\ pc[r] \in {"returned", "raised"} =>
          /\ calls'[r] = calls[r]
          /\ pc'[r] = pc[r]
          /\ i'[r] = i[r]
          /\ attempts'[r] = attempts[r]

\* C20: a run started with max_attempts >= 1 whose calls all come back ends:
\* it returns PASSED or EXHAUSTED after at most max_attempts attempts (or
\* ends with the exception a call raised); the attempt index only moves
\* from i to i+1, and after the end no further external call is made.
C20_Terminates ==
    /\ \A r \in Runs :
          (pc[r] = "loop" /\ i[r] = 0 /\ args[r].max_attempts >= 1)
              ~> Finished(r)
    /\ [][\A r \in Runs : BoundedStep(r)]_vars

\* a run has returned EXHAUSTED after two or more Compositor calls, one per
\* value of the attempt index
C20_Witness ==
    \E r \in Runs :
        /\ pc[r] = "returned"
        /\ ~result[r].passed
        /\ args[r].max_attempts >= 2
        /\ i[r] = args[r].max_attempts
        /\ CallCount(r, "compositor") = i[r]
        /\ \A n \in 1..i[r] : CallsFor(r, "compositor", n) # {}

(***************************************************************************)
(* Order of the external calls                                             *)
(***************************************************************************)
\* C21: within every attempt the Compositor, the Reviewer and the Examiner
\* are called at most once each (exactly once for an attempt in the history)
\* and in that order; the Reviewer and the Examiner of attempt n get the image
\* the Compositor call of attempt n wrote, the Examiner gets the text the
\* Reviewer call of attempt n returned, and the Compositor call of attempt
\* n+1 comes after the Examiner call of attempt n has returned.
C21_CallsInOrder ==
    \A r \in Runs :
        LET L == calls[r]
        IN  /\ \A n \in 1..i[r] : \A kind \in {"compositor", "reviewer", "examiner"} :
                  /\ Cardinality(CallsFor(r, kind, n)) <= 1
                  /\ n <= Len(attempts[r]) => Cardinality(CallsFor(r, kind, n)) = 1
            /\ \A k \in 1..Len(L) :
                  /\ L[k].kind = "reviewer" =>
                        /\ k > 1
                        /\ L[k - 1].kind = "compositor"
                        /\ ~L[k - 1].raised
                        /\ L[k - 1].attempt = L[k].attempt
                        /\ L[k].path = L[k - 1].path
                        /\ L[k].images[2] = [by |-> r, attempt |-> L[k].attempt]
                  /\ L[k].kind = "examiner" =>
                        /\ k > 2
                        /\ L[k - 1].kind = "reviewer"
                        /\ ~L[k - 1].raised
                        /\ L[k - 1].attempt = L[k].attempt
                        /\ L[k].review = L[k - 1].response
                        /\ L[k].path = L[k - 2].path
                        /\ L[k].images[2] = [by |-> r, attempt |-> L[k].attempt]
                  /\ (L[k].kind = "compositor" /\ L[k].attempt > 1) =>
                        /\ \E e \in 1..(k - 1) :
                              /\ L[e].kind = "examiner"
                              /\ L[e].attempt = L[k].attempt - 1
                              /\ ~L[e].raised
                        /\ \A m \in 1..Len(L) :
                              (L[m].kind # "observer") =>
                                  (m < k <=> L[m].attempt < L[k].attempt)

\* the Examiner of attempt 2 has answered on a review that differs from the
\* review of attempt 1
C21_Witness ==
    \E r \in Runs :
        /\ calls[r] # <<>>
        /\ Last(calls[r]).kind = "examiner"
        /\ Last(calls[r]).attempt = 2
        /\ ~Last(calls[r]).raised
        /\ Last(calls[r]).review = ReviewAbsent
        /\ attempts[r][1].review = ReviewSeen

(***************************************************************************)
(* Prompt assembly                                                         *)
(***************************************************************************)
\* the feedback of the first n Attempts of hist, one blank between two
RECURSIVE RefJoinFeedback(_, _)
RefJoinFeedback(hist, n) ==
    IF n = 0 THEN <<>>
    ELSE IF n = 1 THEN hist[1].feedback
    ELSE RefJoinFeedback(hist, n - 1) \o <<" ">> \o hist[n].feedback

\* the prompt the assembly rule prescribes: the description, then the
\* instructions if there are any, then the corrections of n earlier attempts
RefCompositorPrompt(description, instr, hasInstr, hist, n) ==
    description
    \o (IF hasInstr THEN <<".", " ">> \o instr ELSE <<>>)
    \o (IF n > 0
        THEN <<".", " ">> \o CorrectionsPreamble \o RefJoinFeedback(hist, n)
        ELSE <<>>)

\* C22 (as claimed): the Compositor prompt of every attempt is the
\* description, then the additional-instructions text if and only if it is
\* non-empty, then, if and only if there is accumulated feedback, the preamble
\* and all feedback joined by single blanks; attempt 1 has no preamble
\* (stated for runs with a non-empty description).
C22_PromptPartsIffNonEmpty ==
    \A r \in Runs : \A k \in Composed(r) :
        LET e == calls[r][k]
            instr == args[r].additional_instructions
        IN  args[r].description = <<>> \/
            /\ Len(attempts[r]) >= e.attempt - 1
            /\ e.text = RefCompositorPrompt(args[r].description, RefTrim(instr),
                                            instr # <<>>, attempts[r], e.attempt - 1)
            /\ e.attempt = 1 => ~Contains(e.text, CorrectionsPreamble)

\* C22 (amended): the Compositor prompt of every attempt is the description,
\* then ". " and the stripped additional-instructions text if and only if
\* that text is not empty after stripping, then, if and only if there is
\* accumulated feedback, ". ", the preamble and all feedback joined by single
\* blanks; attempt 1 has no preamble.
C22_PromptPartsIffNonBlank ==
    \A r \in Runs : \A k \in Composed(r) :
        LET e == calls[r][k]
            instr == args[r].additional_instructions
        IN  /\ Len(attempts[r]) >= e.attempt - 1
            /\ e.text = RefCompositorPrompt(args[r].description, RefTrim(instr),
                                            RefTrim(instr) # <<>>, attempts[r],
                                            e.attempt - 1)
            /\ e.attempt = 1 => ~Contains(e.text, CorrectionsPreamble)

\* the prompt of attempt 3 of a run with a description and instructions holds
\* all three parts, the corrections last
C22_Witness ==
    \E r \in Runs : \E k \in Composed(r) :
        /\ calls[r][k].attempt = 3
        /\ args[r].description = DescNearDoor
        /\ args[r].additional_instructions = InstrOak
        /\ attempts[r][1].feedback # attempts[r][2].feedback
        /\ ContainsInOrder(calls[r][k].text,
              <<DescNearDoor, RefTrim(InstrOak), CorrectionsPreamble,
                attempts[r][1].feedback, attempts[r][2].feedback>>)

\* C23: the accumulator holds one entry per failed attempt that was decided,
\* the feedback of that attempt even when it is the empty string; while
\* attempt i is under way its length is i-1, and the prompt of every attempt
\* i > 1 contains the corrections preamble.
C23_OneEntryPerFailedAttempt ==
    \A r \in Runs :
        LET acc == accumulated_feedback[r]
        IN  /\ Len(acc) <= Len(attempts[r])
            /\ \A j \in 1..Len(acc) :
                  /\ ~attempts[r][j].passed
                  /\ acc[j] = attempts[r][j].feedback
            /\ pc[r] \in {"generate", "review", "examine", "notify", "decide"} =>
                  Len(acc) = i[r] - 1
            /\ pc[r] = "loop" => Len(acc) = i[r]
            /\ \A j \in 1..Len(attempts[r]) :
                  (~attempts[r][j].passed /\ j < i[r]) => j <= Len(acc)
            /\ \A k \in Composed(r) :
                  calls[r][k].attempt > 1 =>
                      Contains(calls[r][k].text, CorrectionsPreamble)

\* attempt 2 was generated after an attempt 1 that failed without feedback:
\* the accumulator holds one empty string
C23_Witness ==
    \E r \in Runs :
        /\ accumulated_feedback[r] = << <<>> >>
        /\ \E k \in Composed(r) :
              /\ calls[r][k].attempt = 2
              /\ Contains(calls[r][k].text, CorrectionsPreamble)

(***************************************************************************)
(* Two runs side by side                                                   *)
(***************************************************************************)
\* the log entries of the Reviewer and Examiner calls of run r
Verified(r) ==
    {k \in 1..Len(calls[r]) : calls[r][k].kind \in {"reviewer", "examiner"}}

\* "shadow missing"
ShadowFeedback == RefFeedback(RespFailShadow)

\* "wrong angle"
AngleFeedback == RefFeedback(RespFailAngle)

\* C24: every Reviewer and Examiner call gets the description and the
\* additional instructions the run was started with, and its prompt holds
\* neither the corrections preamble nor any accumulated feedback; two runs of
\* the same flavor started with the same description and instructions send
\* the same texts to the Reviewer and the Examiner in every attempt, whatever
\* feedback their earlier attempts got, while their Compositor prompts differ
\* as soon as the feedback does.
C24_VerifiersSeeOriginalIntent ==
    /\ \A r \in Runs : \A k \in Verified(r) :
          LET e == calls[r][k]
          IN  /\ e.text = args[r].description
              /\ e.instructions = args[r].additional_instructions
              /\ ~Contains(PromptOf(r, e), CorrectionsPreamble)
              /\ \A j \in 1..Len(accumulated_feedback[r]) :
                    accumulated_feedback[r][j] # <<>> =>
                        ~Contains(PromptOf(r, e), accumulated_feedback[r][j])
    /\ \A r1 \in Runs, r2 \in Runs :
          (/\ args[r1].flavor = args[r2].flavor
           /\ args[r1].description = args[r2].description
           /\ args[r1].additional_instructions = args[r2].additional_instructions) =>
              /\ \A k1 \in Verified(r1), k2 \in Verified(r2) :
                    LET e1 == calls[r1][k1]
                        e2 == calls[r2][k2]
                    IN  (e1.kind = e2.kind /\ e1.review = e2.review) =>
                            PromptOf(r1, e1) = PromptOf(r2, e2)
              /\ \A k1 \in Composed(r1), k2 \in Composed(r2) :
                    (/\ calls[r1][k1].attempt = calls[r2][k2].attempt
                     /\ Len(attempts[r1]) >= calls[r1][k1].attempt - 1
                     /\ Len(attempts[r2]) >= calls[r2][k2].attempt - 1
                     /\ \E j \in 1..(calls[r1][k1].attempt - 1) :
                           attempts[r1][j].feedback # attempts[r2][j].feedback) =>
                        calls[r1][k1].text # calls[r2][k2].text

\* two runs of the same flavor whose first attempts got different feedback
\* have both had their second attempt reviewed
C24_Witness ==
    \E r1 \in Runs, r2 \in Runs :
        /\ args[r1].flavor = args[r2].flavor
        /\ accumulated_feedback[r1] = <<ShadowFeedback>>
        /\ accumulated_feedback[r2] = <<AngleFeedback>>
        /\ \E k \in CallsFor(r1, "reviewer", 2) : ~calls[r1][k].raised
        /\ \E k \in CallsFor(r2, "reviewer", 2) : ~calls[r2][k].raised

\* C25: every run starts with an empty accumulator and an empty history; the
\* accumulator of a run holds the feedback of its own failed attempts only,
\* no Compositor prompt of a run contains feedback that only the other run
\* got, and every Attempt in a run's history (and in what it returns) was
\* made from that run's own Reviewer and Examiner calls, whatever the flavors
\* of the two runs and however their steps interleave.
C25_RunScopedState ==
    \A r \in Runs :
        LET own == {attempts[r][j].feedback : j \in 1..Len(attempts[r])}
        IN  /\ (pc[r] = "loop" /\ i[r] = 0) =>
                  (accumulated_feedback[r] = <<>> /\ attempts[r] = <<>>)
            /\ Len(accumulated_feedback[r]) <= Len(attempts[r])
            /\ \A j \in 1..Len(accumulated_feedback[r]) :
                  accumulated_feedback[r][j] = attempts[r][j].feedback
            /\ \A r2 \in Runs \ {r} : \A j \in 1..Len(attempts[r2]) :
                  (attempts[r2][j].feedback \notin own \cup {<<>>}) =>
                      \A k \in Composed(r) :
                          ~Contains(calls[r][k].text, attempts[r2][j].feedback)
            /\ Len(attempts[r]) = Cardinality(Examined(r))
            /\ \A j \in 1..Len(attempts[r]) :
                  /\ attempts[r][j].attempt = j
                  /\ \E k \in CallsFor(r, "reviewer", j) :
                        calls[r][k].response = attempts[r][j].review
                  /\ \E k \in CallsFor(r, "examiner", j) :
                        /\ attempts[r][j].feedback = RefFeedback(calls[r][k].response)
                        /\ attempts[r][j].passed = RefPassed(calls[r][k].response)
            /\ pc[r] = "returned" => result[r].attempts = attempts[r]

\* an insertion run and a removal run have both returned after two attempts;
\* one got 'shadow missing' first, the other 'wrong angle'
C25_Witness ==
    \E r1 \in Runs, r2 \in Runs :
        /\ args[r1].flavor # args[r2].flavor
        /\ pc[r1] = "returned"
        /\ pc[r2] = "returned"
        /\ Len(result[r1].attempts) = 2
        /\ Len(result[r2].attempts) = 2
        /\ result[r1].attempts[1].feedback = ShadowFeedback
        /\ result[r2].attempts[1].feedback = AngleFeedback

(***************************************************************************)
(* Shape of the history                                                    *)
(***************************************************************************)
\* the positions of the passing Attempts of a history
Passing(hist) == {j \in 1..Len(hist) : hist[j].passed}

\* C26: in the history at any time, and in every history returned, every
\* Attempt but the last has passed=False: at most one Attempt passes and it
\* is the last one; the observer is never called for an attempt that follows
\* a passing one.
C26_OnlyLastAttemptPasses ==
    \A r \in Runs :
        /\ Cardinality(Passing(attempts[r])) <= 1
        /\ Passing(attempts[r]) \subseteq {Len(attempts[r])}
        /\ pc[r] = "returned" =>
              /\ Passing(result[r].attempts) \subseteq {Len(result[r].attempts)}
              /\ result[r].passed <=> Passing(result[r].attempts) # {}
        /\ \A k \in 1..Len(calls[r]) :
              calls[r][k].kind = "observer" =>
                  \A j \in 1..(calls[r][k].attempt - 1) : ~attempts[r][j].passed

\* a run returned a history of three Attempts of which only the third passed
C26_Witness ==
    \E r \in Runs :
        /\ pc[r] = "returned"
        /\ Len(result[r].attempts) = 3
        /\ Passing(result[r].attempts) = {3}

\* one step of run r as far as its history goes: it is left alone or gains
\* one Attempt at its end, numbered with the new length and with the current
\* value of the loop index
HistoryStep(r) ==
    \/ attempts'[r] = attempts[r]
    \/ /\ Len(attempts'[r]) = Len(attempts[r]) + 1
       /\ SubSeq(attempts'[r], 1, Len(attempts[r])) = attempts[r]
       /\ Last(attempts'[r]).attempt = Len(attempts'[r])
       /\ Last(attempts'[r]).attempt = i[r]

\* C27: at every point of a run the j-th Attempt of the history has
\* attempt = j (1-based, unique, strictly increasing), and the history is in
\* chronological order: it only ever grows at its end, by the Attempt of the
\* attempt under way, and the Examiner calls behind its entries were made in
\* the order of the entries.
C27_SequenceNumbers ==
    /\ [](\A r \in Runs :
            /\ \A j \in 1..Len(attempts[r]) : attempts[r][j].attempt = j
            /\ \A j1, j2 \in 1..Len(attempts[r]) :
                  (j1 < j2) =>
                      /\ attempts[r][j1].attempt < attempts[r][j2].attempt
                      /\ \A k1 \in CallsFor(r, "examiner", j1),
                            k2 \in CallsFor(r, "examiner", j2) : k1 < k2
            /\ Len(attempts[r]) <= i[r])
    /\ [][\A r \in Runs : HistoryStep(r)]_vars

\* the history holds the Attempts 1, 2, 3 and the run is still under way
C27_Witness ==
    \E r \in Runs :
        /\ pc[r] \in {"notify", "decide"}
        /\ Len(attempts[r]) = 3
        /\ attempts[r][1].attempt = 1
        /\ attempts[r][3].attempt = 3

(***************************************************************************)
(* The Streamlit app                                                       *)
(***************************************************************************)
\* the file a session-state path names is on disk
OnDisk(path) == path # None /\ path \in DOMAIN files

C29_EditUsesCurrentRoom ==
    (Step4Rendered(session_state, files) /\ ~script.rerun) =>
        LET room == files[session_state.room_image_path]
        IN  /\ files[session_state.layout_image_path].room = room.data
            /\ files[session_state.layout_with_dot_path].layout
                  = files[session_state.layout_image_path]
            /\ OnDisk(session_state.result_image_path) =>
                  files[session_state.result_image_path].room = room.data

(***************************************************************************)
(* process_batch                                                           *)
(***************************************************************************)
\* C30 (as claimed): process_batch returns a list of the length and order of
\* image_paths, position j holding the output path of image j, or None if
\* processing image j raised; every image is processed whatever happened to
\* the earlier ones; a prompts or output_names list whose length differs from
\* that of image_paths raises ValueError before any image is processed.
C30_BatchContract ==
    LET n == Len(batch.image_paths)
        mismatch == \/ ~batch.prompts.str /\ Len(batch.prompts.items) # n
                    \/ ~batch.output_names.none /\ Len(batch.output_names.items) # n
    IN  /\ (batch.pc # "idle" /\ mismatch) =>
              /\ batch.processed = <<>>
              /\ batch.pc \in {"check", "raised"}
              /\ batch.pc = "raised" => batch.error = "ValueError"
        /\ batch.pc = "returned" =>
              /\ Len(batch.results) = n
              /\ Len(batch.processed) = n
              /\ \A j \in 1..n :
                    /\ batch.processed[j].index = j
                    /\ batch.processed[j].image = batch.image_paths[j]
                    /\ batch.results[j] =
                          IF batch.processed[j].raised THEN None
                          ELSE batch.processed[j].path
                    /\ ~batch.processed[j].raised =>
                          batch.results[j] \in DOMAIN files

====
